---- MODULE Spec2Model ----
(***************************************************************************)
(* Decision core of the NPC reaction pipeline: the tool registry, the      *)
(* personality model, the probability engine and the decide_and_act        *)
(* orchestrator of cognition/DecisionEngine/decision_engine.py, together   *)
(* with the DecisionClient response handling it depends on.                *)
(*                                                                         *)
(* Floats are fixed-point integers: the float 1.0 is the integer One, so   *)
(* 0.15 is 1500 and the pruning threshold 0.01 is 100.  A float division   *)
(* is an integer division on that grid.                                    *)
(***************************************************************************)
EXTENDS Integers, Sequences, FiniteSets, TLC

One == 10000
Half == One \div 2

\* x/100 as a fixed-point number: Pct(15) is the float 0.15
Pct(x) == (x * One) \div 100

Min(a, b) == IF a < b THEN a ELSE b
Max(a, b) == IF a > b THEN a ELSE b

\* max(0.0, min(1.0, value))
Clamp01(v) == Max(0, Min(One, v))

\* Python's x / y on the fixed-point grid, rounding toward zero
FDiv(x, y) == IF x >= 0 THEN x \div y ELSE -((-x) \div y)

\* s[lo] + ... + s[hi]
RECURSIVE SumRange(_, _, _)
SumRange(s, lo, hi) ==
    IF lo > hi THEN 0
    ELSE IF lo = hi THEN s[lo]
    ELSE LET mid == (lo + hi) \div 2
         IN SumRange(s, lo, mid) + SumRange(s, mid + 1, hi)

SumSeq(s) == SumRange(s, 1, Len(s))

Range(s) == {s[i] : i \in 1..Len(s)}

(***************************************************************************)
(* Bounds of the exploration                                               *)
(***************************************************************************)
\* decide_and_act calls made on the engine in one behaviour
MaxCalls == 2

(***************************************************************************)
(* toolbox/__init__.py: the registry                                       *)
(***************************************************************************)
\* The @register_tool decorations in the order the toolbox package imports
\* its modules; cls is the class __name__, module the last component of its
\* __module__, name its name attribute.
Registrations ==
<<
    [cls |-> "DialogueResponseTool", module |-> "dialogue_tools", name |-> "dialogue_response"],
    [cls |-> "DeceiveTool", module |-> "dialogue_tools", name |-> "deceive"],
    [cls |-> "PersuadeTool", module |-> "dialogue_tools", name |-> "persuade"],
    [cls |-> "AskQuestionTool", module |-> "dialogue_tools", name |-> "ask_question"],
    [cls |-> "MonologueTool", module |-> "dialogue_tools", name |-> "monologue"],
    [cls |-> "FleeTool", module |-> "dialogue_tools", name |-> "flee"],
    [cls |-> "AttackTool", module |-> "combat_tools", name |-> "attack"],
    [cls |-> "DefendTool", module |-> "combat_tools", name |-> "defend"],
    [cls |-> "TauntTool", module |-> "combat_tools", name |-> "taunt"],
    [cls |-> "TacticalRepositionTool", module |-> "combat_tools", name |-> "tactical_reposition"],
    [cls |-> "ThreatenTool", module |-> "combat_tools", name |-> "threaten"],
    [cls |-> "DisarmTool", module |-> "combat_tools", name |-> "disarm"],
    [cls |-> "StunTool", module |-> "combat_tools", name |-> "stun"],
    [cls |-> "ApproachTool", module |-> "movement_tools", name |-> "approach"],
    [cls |-> "RetreatTool", module |-> "movement_tools", name |-> "retreat"],
    [cls |-> "CircleTool", module |-> "movement_tools", name |-> "circle"],
    [cls |-> "HideTool", module |-> "movement_tools", name |-> "hide"],
    [cls |-> "TakeCoverTool", module |-> "movement_tools", name |-> "take_cover"],
    [cls |-> "GreetTool", module |-> "social_tools", name |-> "greet"],
    [cls |-> "OfferHelpTool", module |-> "social_tools", name |-> "offer_help"],
    [cls |-> "BargainTool", module |-> "social_tools", name |-> "bargain"],
    [cls |-> "RequestInfoTool", module |-> "social_tools", name |-> "request_info"],
    [cls |-> "BefriendTool", module |-> "social_tools", name |-> "befriend"],
    [cls |-> "ApologizeTool", module |-> "social_tools", name |-> "apologize"],
    [cls |-> "ExpressEmotionTool", module |-> "emotional_tools", name |-> "express_emotion"],
    [cls |-> "LaughTool", module |-> "emotional_tools", name |-> "laugh"],
    [cls |-> "CryTool", module |-> "emotional_tools", name |-> "cry"],
    [cls |-> "ShowConfusionTool", module |-> "emotional_tools", name |-> "show_confusion"],
    [cls |-> "PanicTool", module |-> "emotional_tools", name |-> "panic"],
    [cls |-> "UseItemTool", module |-> "item_tools", name |-> "use_item"],
    [cls |-> "GiveItemTool", module |-> "item_tools", name |-> "give_item"],
    [cls |-> "TakeItemTool", module |-> "item_tools", name |-> "take_item"],
    [cls |-> "ExamineItemTool", module |-> "item_tools", name |-> "examine_item"],
    [cls |-> "EquipItemTool", module |-> "item_tools", name |-> "equip_item"],
    [cls |-> "CraftItemTool", module |-> "item_tools", name |-> "craft_item"],
    [cls |-> "SearchAreaTool", module |-> "environmental_tools", name |-> "search_area"],
    [cls |-> "InteractEnvironmentTool", module |-> "environmental_tools", name |-> "interact_environment"],
    [cls |-> "CreateDistraction", module |-> "environmental_tools", name |-> "create_distraction"],
    [cls |-> "SetTrapTool", module |-> "environmental_tools", name |-> "set_trap"],
    [cls |-> "ListenTool", module |-> "environmental_tools", name |-> "listen"],
    [cls |-> "PersuadeTool", module |-> "communication_tools", name |-> "persuade"],
    [cls |-> "DeceiveTool", module |-> "communication_tools", name |-> "deceive"],
    [cls |-> "GossipTool", module |-> "communication_tools", name |-> "gossip"],
    [cls |-> "ComplainTool", module |-> "communication_tools", name |-> "complain"],
    [cls |-> "ComfortTool", module |-> "communication_tools", name |-> "comfort"],
    [cls |-> "EncourageTool", module |-> "communication_tools", name |-> "encourage"],
    [cls |-> "AdviseTool", module |-> "communication_tools", name |-> "advise"],
    [cls |-> "ArgueTool", module |-> "communication_tools", name |-> "argue"],
    [cls |-> "ObservePersonTool", module |-> "observation_tools", name |-> "observe_person"],
    [cls |-> "ObserveEnvironmentTool", module |-> "observation_tools", name |-> "observe_environment"],
    [cls |-> "EavesdropTool", module |-> "observation_tools", name |-> "eavesdrop"],
    [cls |-> "ReadBodyLanguageTool", module |-> "observation_tools", name |-> "read_body_language"],
    [cls |-> "InvestigateAnomalyTool", module |-> "observation_tools", name |-> "investigate_anomaly"],
    [cls |-> "EatTool", module |-> "self_care_tools", name |-> "eat"],
    [cls |-> "DrinkTool", module |-> "self_care_tools", name |-> "drink"],
    [cls |-> "RestTool", module |-> "self_care_tools", name |-> "rest"],
    [cls |-> "GroomTool", module |-> "self_care_tools", name |-> "groom"],
    [cls |-> "SeekComfortTool", module |-> "self_care_tools", name |-> "seek_comfort"],
    [cls |-> "StretchTool", module |-> "self_care_tools", name |-> "stretch"],
    [cls |-> "PickUpObjectTool", module |-> "everyday_object_tools", name |-> "pick_up_object"],
    [cls |-> "PutDownObjectTool", module |-> "everyday_object_tools", name |-> "put_down_object"],
    [cls |-> "OpenObjectTool", module |-> "everyday_object_tools", name |-> "open_object"],
    [cls |-> "CloseObjectTool", module |-> "everyday_object_tools", name |-> "close_object"],
    [cls |-> "UseEverydayObjectTool", module |-> "everyday_object_tools", name |-> "use_everyday_object"],
    [cls |-> "TidyUpTool", module |-> "everyday_object_tools", name |-> "tidy_up"],
    [cls |-> "PrepareFoodOrDrinkTool", module |-> "everyday_object_tools", name |-> "prepare_food_or_drink"],
    [cls |-> "IgnoreTool", module |-> "social_maneuvering_tools", name |-> "ignore"],
    [cls |-> "AvoidTool", module |-> "social_maneuvering_tools", name |-> "avoid"],
    [cls |-> "JoinGroupTool", module |-> "social_maneuvering_tools", name |-> "join_group"],
    [cls |-> "LeaveGroupTool", module |-> "social_maneuvering_tools", name |-> "leave_group"],
    [cls |-> "ShowPolitenessTool", module |-> "social_maneuvering_tools", name |-> "show_politeness"],
    [cls |-> "ShowImpatienceTool", module |-> "social_maneuvering_tools", name |-> "show_impatience"],
    [cls |-> "PonderTool", module |-> "cognitive_tools", name |-> "ponder"],
    [cls |-> "MakePlanTool", module |-> "cognitive_tools", name |-> "make_plan"],
    [cls |-> "ReconsiderTool", module |-> "cognitive_tools", name |-> "reconsider"],
    [cls |-> "DaydreamTool", module |-> "cognitive_tools", name |-> "daydream"],
    [cls |-> "RecallMemoryTool", module |-> "cognitive_tools", name |-> "recall_memory"],
    [cls |-> "FocusAttentionTool", module |-> "cognitive_tools", name |-> "focus_attention"],
    [cls |-> "SighTool", module |-> "subtle_expression_tools", name |-> "sigh"],
    [cls |-> "FidgetTool", module |-> "subtle_expression_tools", name |-> "fidget"],
    [cls |-> "ShiftWeightTool", module |-> "subtle_expression_tools", name |-> "shift_weight"],
    [cls |-> "GlanceTool", module |-> "subtle_expression_tools", name |-> "glance"],
    [cls |-> "RaiseEyebrowTool", module |-> "subtle_expression_tools", name |-> "raise_eyebrow"],
    [cls |-> "TightenLipsTool", module |-> "subtle_expression_tools", name |-> "tighten_lips"]
>>

\* a faulty register_tool: a name already registered keeps its first class
register_tool_keep_first(reg, c) ==
    IF \E i \in 1..Len(reg) : reg[i].cls = c.cls THEN reg ELSE Append(reg, c)

\* _TOOL_REGISTRY[cls.__name__] = cls on an insertion-ordered dict: a key
\* already present keeps its position and gets the new class.
register_tool(reg, c) ==
    IF \E i \in 1..Len(reg) : reg[i].cls = c.cls
    THEN [i \in 1..Len(reg) |-> IF reg[i].cls = c.cls THEN c ELSE reg[i]] \o <<>>
    ELSE Append(reg, c)

RegistryKeys(reg) == {reg[i].cls : i \in 1..Len(reg)}

\* _TOOL_REGISTRY[tool_name]; only applied where the key is present, the
\* KeyError case is the callers' HasTool test
HasTool(reg, tool_name) == tool_name \in RegistryKeys(reg)
get_tool(reg, tool_name) ==
    reg[CHOOSE i \in 1..Len(reg) : reg[i].cls = tool_name]

\* The decorators of cs[lo..hi] run in order on reg, one register_tool
\* each: those of the first half, then on their result those of the second.
RECURSIVE RegisterAll(_, _, _, _)
RegisterAll(reg, cs, lo, hi) ==
    IF lo > hi THEN reg
    ELSE IF lo = hi THEN register_tool(reg, cs[lo])
    ELSE LET mid == (lo + hi) \div 2
         IN CHOOSE after \in
               {RegisterAll(first, cs, mid + 1, hi) :
                   first \in {RegisterAll(reg, cs, lo, mid)}} : TRUE

\* the registry once the toolbox package is imported
StartupRegistry == RegisterAll(<<>>, Registrations, 1, Len(Registrations))

(***************************************************************************)
(* PersonalityEngine/personality.py                                        *)
(***************************************************************************)
PersonalityDimension ==
    { "AGGRESSIVENESS", "EXTRAVERSION", "NEUROTICISM", "OPENNESS",
      "CONSCIENTIOUSNESS", "AGREEABLENESS", "DOMINANCE", "RISK_TOLERANCE" }

PersonalityModifier == {"STRESS", "FAMILIARITY", "TRUST", "MOOD", "POWER_DYNAMIC"}

\* A dict is a function whose DOMAIN is the set of keys present.
\* self.traits.get(trait, 0.5)
get_trait(traits, trait) == IF trait \in DOMAIN traits THEN traits[trait] ELSE Half

\* self.modifiers.get(modifier, 0.5)
get_modifier(modifiers, modifier) ==
    IF modifier \in DOMAIN modifiers THEN modifiers[modifier] ELSE Half

\* a faulty update_modifier: the value is stored as it is given
update_modifier_unclamped(modifiers, modifier, value) ==
    [m \in (DOMAIN modifiers) \cup {modifier} |->
        IF m = modifier THEN value ELSE modifiers[m]]

\* self.modifiers[modifier] = max(0.0, min(1.0, value))
update_modifier(modifiers, modifier, value) ==
    [m \in (DOMAIN modifiers) \cup {modifier} |->
        IF m = modifier THEN Clamp01(value) ELSE modifiers[m]]

\* __post_init__: every trait given at construction is clamped to [0, 1]
post_init_traits(traits) == [t \in DOMAIN traits |-> Clamp01(traits[t])]

\* a faulty influence_value: the trait is not centred on 0.5
influence_value_uncentred(traits, base_value, trait, influence_strength) ==
    Clamp01(base_value + FDiv(get_trait(traits, trait) * influence_strength, One))

\* influence_value(base_value, trait, influence_strength)
influence_value(traits, base_value, trait, influence_strength) ==
    LET trait_value == get_trait(traits, trait)
        trait_influence == FDiv((trait_value - Half) * influence_strength, One)
    IN Clamp01(base_value + trait_influence)

\* Values random.uniform(a, b) returns, a + (b - a) * random(): the two ends
\* and the middle of the interval
uniform(a, b) == {a, a + FDiv(b - a, 2), b}

\* a faulty add_randomness: the sum is returned as it is
add_randomness_unclamped(value, random_factor) == value + random_factor

\* add_randomness: random_factor is the value random.uniform(-randomness,
\* randomness) returned
add_randomness(value, random_factor) == Clamp01(value + random_factor)

(***************************************************************************)
(* DecisionEngine/stimulus.py                                              *)
(***************************************************************************)
\* the empty dict
EmptyDict == [k \in {} |-> 0]

RECURSIVE SumValues(_)
SumValues(d) ==
    IF DOMAIN d = {} THEN 0
    ELSE LET k == CHOOSE x \in DOMAIN d : TRUE
         IN d[k] + SumValues([x \in (DOMAIN d) \ {k} |-> d[x]])

StimulusType ==
    { "DIALOGUE", "GESTURE", "ENVIRONMENT", "ACTION", "OBJECT_INTERACTION",
      "PHYSICAL_CONTACT" }

StimulusSchema ==
    { "THREAT", "PRAISE", "INSULT", "DECEPTION", "FLIRTATION",
      "DOMINANCE_ASSERTION", "SUBMISSION", "BETRAYAL", "REASSURANCE", "REQUEST",
      "VIOLENCE", "COMPASSION", "DISGUST", "MYSTERY", "ABANDONMENT", "SACRIFICE" }

StimulusIntent ==
    { "PROVOKE", "HUMILIATE", "TEST_LOYALTY", "BUILD_RAPPORT", "WARN",
      "ASSERT_CONTROL", "ESCAPE_BLAME", "SEEK_HELP", "EXPRESS_LOVE",
      "ASK_FOR_FORGIVENESS", "MANIPULATE" }

\* InterpretedStimulus.__post_init__: whether the constructor returns the
\* object or raises.  A schema entry that is no member of StimulusSchema
\* ends the construction (ValueError from line 146 for a member of another
\* enumeration, TypeError from the "not in" test of line 144 for a value
\* that is no enumeration member at all); no other field is looked at.
post_init_stimulus(stimulus) ==
    IF \E i \in 1..Len(stimulus.schema) : stimulus.schema[i] \notin StimulusSchema
    THEN "raised"
    ELSE "constructed"

\* InterpretedStimulus.salience_score
salience_score(stimulus) ==
    IF DOMAIN stimulus.salience = {} THEN 0
    ELSE FDiv(SumValues(stimulus.salience), Cardinality(DOMAIN stimulus.salience))

InSchema(stimulus, s) == s \in Range(stimulus.schema)

(***************************************************************************)
(* decision_engine.py: ToolCategory and _organize_tools_by_category        *)
(***************************************************************************)
\* the ToolCategory values, in the key order of the relevance dict
CategoryOrder ==
    << "dialogue_tools", "combat_tools", "movement_tools", "social_tools",
       "emotional_tools", "item_tools", "environmental_tools",
       "communication_tools", "observation_tools", "self_care_tools",
       "everyday_object_tools", "social_maneuvering_tools", "cognitive_tools",
       "subtle_expression_tools" >>

ToolCategory == Range(CategoryOrder)

\* module name -> the registry keys whose class lives in that module, in
\* registry order
organize_tools_by_category(reg) ==
    [m \in {reg[i].module : i \in 1..Len(reg)} |->
        LET InModule(c) == c.module = m
            picked == SelectSeq(reg, InModule)
        IN [i \in 1..Len(picked) |-> picked[i].cls]]

(***************************************************************************)
(* decision_engine.py: _calculate_category_probabilities                   *)
(***************************************************************************)
\* a sparse {category: boost} table read at category c
At(boosts, c) == IF c \in DOMAIN boosts THEN boosts[c] ELSE 0

CategoryBase ==
    [c \in ToolCategory |->
        IF c \in {"dialogue_tools", "combat_tools", "movement_tools",
                  "social_tools", "emotional_tools", "item_tools",
                  "environmental_tools"}
        THEN Pct(10) ELSE Pct(5)]

TypeBoost(stimulus) ==
    CASE stimulus.stimulus_type = "DIALOGUE" ->
            ("dialogue_tools" :> Pct(40)) @@ ("social_tools" :> Pct(20)) @@
            ("emotional_tools" :> Pct(10)) @@ ("communication_tools" :> Pct(20)) @@
            ("subtle_expression_tools" :> Pct(10)) @@ ("cognitive_tools" :> Pct(5))
      [] stimulus.stimulus_type = "GESTURE" ->
            ("movement_tools" :> Pct(20)) @@ ("social_tools" :> Pct(20)) @@
            ("emotional_tools" :> Pct(20)) @@ ("observation_tools" :> Pct(15)) @@
            ("subtle_expression_tools" :> Pct(10))
      [] stimulus.stimulus_type = "ACTION" ->
            ("movement_tools" :> Pct(20)) @@ ("combat_tools" :> Pct(20)) @@
            ("observation_tools" :> Pct(10))
      [] stimulus.stimulus_type = "ENVIRONMENT" ->
            ("environmental_tools" :> Pct(40)) @@ ("movement_tools" :> Pct(20)) @@
            ("observation_tools" :> Pct(20)) @@
            (IF salience_score(stimulus) < Pct(30)
             THEN ("cognitive_tools" :> Pct(10)) @@ ("self_care_tools" :> Pct(5)) @@
                  ("everyday_object_tools" :> Pct(5))
             ELSE EmptyDict)
      [] stimulus.stimulus_type = "OBJECT_INTERACTION" ->
            ("item_tools" :> Pct(40)) @@ ("environmental_tools" :> Pct(20)) @@
            ("everyday_object_tools" :> Pct(30)) @@ ("observation_tools" :> Pct(10))
      [] stimulus.stimulus_type = "PHYSICAL_CONTACT" ->
            ("combat_tools" :> Pct(30)) @@ ("movement_tools" :> Pct(20)) @@
            ("emotional_tools" :> Pct(20)) @@ ("social_tools" :> Pct(10)) @@
            ("communication_tools" :> Pct(5))
      [] OTHER -> EmptyDict

\* the schema, intent and salience boosts, each a guarded sparse table, in
\* source order
SchemaIntentBoosts(stimulus) ==
    << IF InSchema(stimulus, "THREAT") \/ InSchema(stimulus, "VIOLENCE")
       THEN ("combat_tools" :> Pct(20)) @@ ("movement_tools" :> Pct(20)) @@
            ("emotional_tools" :> Pct(10)) @@ ("social_maneuvering_tools" :> Pct(10))
       ELSE EmptyDict,
       IF InSchema(stimulus, "PRAISE") \/ InSchema(stimulus, "FLIRTATION")
       THEN ("social_tools" :> Pct(30)) @@ ("emotional_tools" :> Pct(20)) @@
            ("dialogue_tools" :> Pct(10)) @@ ("subtle_expression_tools" :> Pct(10))
       ELSE EmptyDict,
       IF InSchema(stimulus, "REQUEST")
       THEN ("dialogue_tools" :> Pct(20)) @@ ("social_tools" :> Pct(15)) @@
            ("communication_tools" :> Pct(20)) @@ ("cognitive_tools" :> Pct(10))
       ELSE EmptyDict,
       IF InSchema(stimulus, "MYSTERY")
       THEN ("observation_tools" :> Pct(30)) @@ ("environmental_tools" :> Pct(15)) @@
            ("cognitive_tools" :> Pct(20))
       ELSE EmptyDict,
       IF InSchema(stimulus, "DECEPTION")
       THEN ("observation_tools" :> Pct(15)) @@ ("cognitive_tools" :> Pct(10)) @@
            ("communication_tools" :> Pct(10))
       ELSE EmptyDict,
       IF stimulus.intent \in {"PROVOKE", "HUMILIATE"}
       THEN ("combat_tools" :> Pct(10)) @@ ("emotional_tools" :> Pct(20))
       ELSE EmptyDict,
       IF stimulus.intent \in {"BUILD_RAPPORT", "EXPRESS_LOVE"}
       THEN ("social_tools" :> Pct(30)) @@ ("dialogue_tools" :> Pct(20))
       ELSE EmptyDict,
       IF "EMOTIONAL" \in DOMAIN stimulus.salience
          /\ stimulus.salience["EMOTIONAL"] > Pct(70)
       THEN ("emotional_tools" :> Pct(20))
       ELSE EmptyDict >>

calculate_category_probabilities(stimulus) ==
    LET boosts == SchemaIntentBoosts(stimulus)
        raw == [c \in ToolCategory |->
                  CategoryBase[c] + At(TypeBoost(stimulus), c)
                  + SumSeq([i \in 1..Len(boosts) |-> At(boosts[i], c)])]
        total == SumSeq([i \in 1..Len(CategoryOrder) |-> raw[CategoryOrder[i]]])
    IN [c \in ToolCategory |-> FDiv(raw[c] * One, total)]

(***************************************************************************)
(* decision_engine.py: the probability engine                              *)
(*                                                                         *)
(* The probabilities dict is the sequence of its items in insertion      *)
(* order, each item a record of the tool key and its weight.               *)
(***************************************************************************)
Item(k, v) == [tool |-> k, weight |-> v]
Keys(p) == {p[i].tool : i \in 1..Len(p)}
Weights(p) == [i \in 1..Len(p) |-> p[i].weight]
\* lines 409-420: every tool of a category that is in the relevance dict
\* and in the engine's cache starts at category_prob / len(tools); cats is
\* the part of the relevance dict still to be iterated.  A registry key is
\* in one module only, so every assignment adds a new key.
RECURSIVE SeedFrom(_, _, _, _)
SeedFrom(p, tbc, category_probabilities, cats) ==
    IF cats = <<>> THEN p
    ELSE LET category == Head(cats)
         IN IF category \in DOMAIN tbc
            THEN LET tools_in_category == tbc[category]
                     tool_base_prob ==
                         IF tools_in_category # <<>>
                         THEN FDiv(category_probabilities[category],
                                   Len(tools_in_category))
                         ELSE 0
                 IN SeedFrom(p \o [i \in 1..Len(tools_in_category) |->
                                     Item(tools_in_category[i], tool_base_prob)],
                             tbc, category_probabilities, Tail(cats))
            ELSE SeedFrom(p, tbc, category_probabilities, Tail(cats))

seed_probabilities(tbc, stimulus) ==
    SeedFrom(<<>>, tbc, calculate_category_probabilities(stimulus), CategoryOrder)

\* One call of _adjust_tool_probability_group(probabilities, tools, total)
\* and the condition it is made under; none of the engine's name lists
\* repeats a name.
Adj(on, tools, total) == [on |-> on, tools |-> tools, total |-> total]

\* total_adjustment / len(available_tools) of the call adj on a dict of the
\* given keys, 0 when the call is skipped or returns early
per_tool_adjustment(adj, keys) ==
    LET available_tools == Range(adj.tools) \cap keys
    IN IF ~adj.on \/ available_tools = {} THEN 0
       ELSE FDiv(adj.total, Cardinality(available_tools))

\* The calls adjs made one after the other.  No call adds or removes a
\* key, so each call that is made adds its per-tool share to the weight of
\* each of its available tools.
ApplyAdjustments(p, adjs) ==
    LET keys == Keys(p)
        IsOn(adj) == adj.on
        made == SelectSeq(adjs, IsOn)
        share == [j \in 1..Len(made) |-> per_tool_adjustment(made[j], keys)] \o <<>>
        names == [j \in 1..Len(made) |-> Range(made[j].tools)] \o <<>>
        touched == UNION {names[j] : j \in 1..Len(made)}
        Added(k) ==
            SumSeq([j \in 1..Len(made) |-> IF k \in names[j] THEN share[j] ELSE 0])
    IN [i \in 1..Len(p) |->
          IF p[i].tool \in touched
          THEN Item(p[i].tool, p[i].weight + Added(p[i].tool))
          ELSE p[i]] \o <<>>

\* _adjust_probabilities_for_stimulus: its calls in source order
StimulusAdjustments(stimulus) ==
    << Adj(InSchema(stimulus, "THREAT"),
           <<"FleeTool", "HideTool", "TakeCoverTool">>, Pct(30)),
       Adj(InSchema(stimulus, "THREAT"),
           <<"DefendTool", "ThreatenTool">>, Pct(20)),
       Adj(InSchema(stimulus, "VIOLENCE"),
           <<"FleeTool", "RetreatTool">>, Pct(30)),
       Adj(InSchema(stimulus, "VIOLENCE"),
           <<"AttackTool", "DefendTool">>, Pct(30)),
       Adj(InSchema(stimulus, "FLIRTATION"),
           <<"DialogueResponseTool", "ExpressEmotionTool">>, Pct(30)),
       Adj(stimulus.stimulus_type = "DIALOGUE",
           <<"DialogueResponseTool", "AskQuestionTool", "MonologueTool">>, Pct(40)),
       Adj(stimulus.intent = "HUMILIATE",
           <<"ExpressEmotionTool", "DialogueResponseTool">>, Pct(20)),
       Adj(stimulus.intent = "BUILD_RAPPORT",
           <<"DialogueResponseTool", "ExpressEmotionTool", "BefriendTool">>, Pct(30)),
       Adj(stimulus.intent = "WARN",
           <<"RetreatTool", "DefendTool", "FleeTool">>, Pct(30)) >>

adjust_probabilities_for_stimulus(p, stimulus) ==
    ApplyAdjustments(p, StimulusAdjustments(stimulus))

\* the thresholds of the trait and modifier bands
HighBand == Pct(70)
LowBand == Pct(30)

\* _adjust_probabilities_for_personality: its calls in source order
PersonalityAdjustments(traits, modifiers) ==
    LET aggressiveness == get_trait(traits, "AGGRESSIVENESS")
        extraversion == get_trait(traits, "EXTRAVERSION")
        neuroticism == get_trait(traits, "NEUROTICISM")
        openness == get_trait(traits, "OPENNESS")
        conscientiousness == get_trait(traits, "CONSCIENTIOUSNESS")
        agreeableness == get_trait(traits, "AGREEABLENESS")
        dominance == get_trait(traits, "DOMINANCE")
        risk_tolerance == get_trait(traits, "RISK_TOLERANCE")
        stress == get_modifier(modifiers, "STRESS")
        mood == get_modifier(modifiers, "MOOD")
        Fighters == <<"AttackTool", "ThreatenTool", "ArgueTool">>
        Yielders == <<"FleeTool", "HideTool", "RetreatTool", "ComfortTool",
                      "ApologizeTool", "ShowPolitenessTool">>
    IN << Adj(aggressiveness > HighBand, Fighters, Pct(20)),
          Adj(aggressiveness > HighBand, Yielders, -Pct(20)),
          Adj(aggressiveness <= HighBand /\ aggressiveness < LowBand, Yielders, Pct(20)),
          Adj(aggressiveness <= HighBand /\ aggressiveness < LowBand, Fighters, -Pct(20)),
          Adj(extraversion > HighBand,
              <<"DialogueResponseTool", "GreetTool", "AskQuestionTool",
                "MonologueTool", "BefriendTool", "PersuadeTool", "GossipTool",
                "EncourageTool", "JoinGroupTool">>, Pct(25)),
          Adj(extraversion > HighBand,
              <<"IgnoreTool", "AvoidTool", "PonderTool">>, -Pct(15)),
          Adj(extraversion <= HighBand /\ extraversion < LowBand,
              <<"HideTool", "SearchAreaTool", "ListenTool", "IgnoreTool",
                "AvoidTool", "LeaveGroupTool", "PonderTool", "DaydreamTool",
                "ObservePersonTool">>, Pct(25)),
          Adj(extraversion <= HighBand /\ extraversion < LowBand,
              <<"GreetTool", "JoinGroupTool", "PersuadeTool">>, -Pct(15)),
          Adj(neuroticism > HighBand,
              <<"ExpressEmotionTool", "PanicTool", "FleeTool", "ComplainTool",
                "CryTool", "SeekComfortTool", "FidgetTool", "SighTool",
                "ShowImpatienceTool", "ReconsiderTool">>, Pct(25)),
          Adj(neuroticism <= HighBand /\ neuroticism < LowBand,
              <<"ComfortTool", "ShowPolitenessTool">>, Pct(10)),
          Adj(neuroticism <= HighBand /\ neuroticism < LowBand,
              <<"PanicTool", "ComplainTool", "FidgetTool">>, -Pct(10)),
          Adj(openness > HighBand,
              <<"SearchAreaTool", "ExamineItemTool", "AskQuestionTool",
                "ObserveEnvironmentTool", "InvestigateAnomalyTool",
                "EavesdropTool", "RecallMemoryTool">>, Pct(20)),
          Adj(openness <= HighBand /\ openness < LowBand, <<"AvoidTool">>, Pct(10)),
          Adj(openness <= HighBand /\ openness < LowBand,
              <<"InvestigateAnomalyTool", "EavesdropTool">>, -Pct(10)),
          Adj(conscientiousness > HighBand,
              <<"ExamineItemTool", "CraftItemTool", "SetTrapTool", "MakePlanTool",
                "FocusAttentionTool", "TidyUpTool", "PrepareFoodOrDrinkTool">>,
              Pct(20)),
          Adj(conscientiousness <= HighBand /\ conscientiousness < LowBand,
              <<"DaydreamTool", "CreateDistraction", "FidgetTool">>, Pct(15)),
          Adj(conscientiousness <= HighBand /\ conscientiousness < LowBand,
              <<"MakePlanTool", "FocusAttentionTool", "TidyUpTool">>, -Pct(10)),
          Adj(agreeableness > HighBand,
              <<"OfferHelpTool", "ApologizeTool", "BefriendTool", "ComfortTool",
                "EncourageTool", "ShowPolitenessTool">>, Pct(25)),
          Adj(agreeableness > HighBand,
              <<"ThreatenTool", "AttackTool", "ArgueTool", "DeceiveTool",
                "ComplainTool">>, -Pct(15)),
          Adj(agreeableness <= HighBand /\ agreeableness < LowBand,
              <<"ArgueTool", "ComplainTool", "DeceiveTool", "ThreatenTool">>,
              Pct(20)),
          Adj(agreeableness <= HighBand /\ agreeableness < LowBand,
              <<"OfferHelpTool", "ApologizeTool", "ComfortTool",
                "ShowPolitenessTool">>, -Pct(15)),
          Adj(dominance > HighBand,
              <<"PersuadeTool", "ThreatenTool", "ArgueTool", "MakePlanTool">>,
              Pct(20)),
          Adj(dominance <= HighBand /\ dominance < LowBand,
              <<"ShowPolitenessTool", "ApologizeTool", "RequestInfoTool">>, Pct(15)),
          Adj(risk_tolerance > HighBand,
              <<"InvestigateAnomalyTool", "ApproachTool", "DeceiveTool">>, Pct(15)),
          Adj(risk_tolerance <= HighBand /\ risk_tolerance < LowBand,
              <<"AvoidTool", "RetreatTool", "TakeCoverTool", "PonderTool">>, Pct(20)),
          Adj(stress > HighBand,
              <<"PanicTool", "FleeTool", "ExpressEmotionTool", "RetreatTool",
                "ComplainTool", "FidgetTool", "SighTool", "ShowImpatienceTool",
                "SeekComfortTool", "AvoidTool">>, Pct(30)),
          Adj(stress > HighBand,
              <<"FocusAttentionTool", "MakePlanTool", "PonderTool">>, -Pct(20)),
          Adj(mood < LowBand,
              <<"ExpressEmotionTool", "DialogueResponseTool", "ComplainTool",
                "ArgueTool", "SighTool", "IgnoreTool", "ShowImpatienceTool">>,
              Pct(20)),
          Adj(mood < LowBand,
              <<"EncourageTool", "LaughTool", "OfferHelpTool", "GreetTool">>,
              -Pct(15)),
          Adj(mood >= LowBand /\ mood > HighBand,
              <<"DialogueResponseTool", "ExpressEmotionTool", "LaughTool",
                "GreetTool", "OfferHelpTool", "EncourageTool", "DaydreamTool">>,
              Pct(20)),
          Adj(mood >= LowBand /\ mood > HighBand,
              <<"ComplainTool", "ArgueTool", "SighTool">>, -Pct(10)) >>

\* the adjustments, then max(0.0, .) on every weight (lines 739-741)
adjust_probabilities_for_personality(p, traits, modifiers) ==
    LET adjusted == ApplyAdjustments(p, PersonalityAdjustments(traits, modifiers))
    IN [i \in 1..Len(adjusted) |->
          Item(adjusted[i].tool, Max(0, adjusted[i].weight))] \o <<>>

\* the weights when the jitter is applied (lines 406-426)
weights_before_jitter(tbc, traits, modifiers, stimulus) ==
    adjust_probabilities_for_personality(
        adjust_probabilities_for_stimulus(seed_probabilities(tbc, stimulus), stimulus),
        traits, modifiers)

\* The values of the successive random.uniform(-0.15, 0.15) calls of one
\* pass over the dict: jitter.odd for the 1st, 3rd, ... key, jitter.even for
\* the 2nd, 4th, ...
JitterAt(jitter, i) == IF i % 2 = 1 THEN jitter.odd ELSE jitter.even

\* lines 429-433: add_randomness on every weight, in key order
jitter_probabilities(p, jitter) ==
    [i \in 1..Len(p) |->
        Item(p[i].tool, add_randomness(p[i].weight, JitterAt(jitter, i)))] \o <<>>

\* the pruning threshold of line 436
PruneThreshold == Pct(1)

\* a faulty pruning: every key is kept
prune_keep_all(p) == p

\* line 436: {k: v for k, v in probabilities.items() if v > 0.01}
prune(p) ==
    LET Kept(item) == item.weight > PruneThreshold
    IN SelectSeq(p, Kept)

\* lines 439-442: divide by the total when it is positive
normalize(p) ==
    LET total == SumSeq(Weights(p))
    IN IF total > 0
       THEN [i \in 1..Len(p) |-> Item(p[i].tool, FDiv(p[i].weight * One, total))]
            \o <<>>
       ELSE p

\* _calculate_tool_probabilities from line 429 on: before holds the
\* weights that the seeding and the two adjustments left (lines 405-427)
calculate_tool_probabilities(before, jitter) ==
    normalize(prune(jitter_probabilities(before, jitter)))

(***************************************************************************)
(* decision_engine.py: _update_modifiers                                   *)
(***************************************************************************)
\* a faulty stress update: praise and reassurance take 0.1 off the stress
update_stress_relief(modifiers, stimulus) ==
    IF InSchema(stimulus, "THREAT")
    THEN update_modifier(modifiers, "STRESS",
                         Min(One, get_modifier(modifiers, "STRESS")
                                  + FDiv(Pct(20) * (IF "EMOTIONAL" \in DOMAIN stimulus.salience
                                                    THEN stimulus.salience["EMOTIONAL"]
                                                    ELSE Half), One)))
    ELSE IF InSchema(stimulus, "PRAISE") \/ InSchema(stimulus, "REASSURANCE")
    THEN update_modifier(modifiers, "STRESS",
                         get_modifier(modifiers, "STRESS") - Pct(10))
    ELSE modifiers

\* lines 110-118
update_stress(modifiers, stimulus) ==
    IF InSchema(stimulus, "THREAT")
    THEN LET current_stress == get_modifier(modifiers, "STRESS")
             emotional_impact ==
                 IF "EMOTIONAL" \in DOMAIN stimulus.salience
                 THEN stimulus.salience["EMOTIONAL"] ELSE Half
             stress_increase == FDiv(Pct(20) * emotional_impact, One)
         IN update_modifier(modifiers, "STRESS",
                            Min(One, current_stress + stress_increase))
    ELSE modifiers

mood_change(stimulus) ==
    (IF stimulus.intent \in {"HUMILIATE", "PROVOKE"} THEN -Pct(10) ELSE 0)
    + (IF stimulus.intent \in {"BUILD_RAPPORT", "EXPRESS_LOVE"} THEN Pct(10) ELSE 0)
    + (IF \E s \in {"THREAT", "INSULT", "VIOLENCE"} : InSchema(stimulus, s)
       THEN -Pct(10) ELSE 0)
    + (IF \E s \in {"PRAISE", "REASSURANCE", "COMPASSION"} : InSchema(stimulus, s)
       THEN Pct(10) ELSE 0)

update_modifiers(modifiers, stimulus) ==
    LET stressed == update_stress(modifiers, stimulus)
        current_mood == get_modifier(stressed, "MOOD")
    IN update_modifier(stressed, "MOOD",
                       Max(0, Min(One, current_mood + mood_change(stimulus))))

(***************************************************************************)
(* random.choices(tools, weights=weights, k=1)[0]                          *)
(***************************************************************************)
\* bisect(cum_weights, x, lo, hi) over cum_weights = accumulate(weights),
\* positions counted from 0: cum_weights[mid] is the sum of the first
\* mid + 1 weights
RECURSIVE Bisect(_, _, _, _)
Bisect(p, x, lo, hi) ==
    IF lo >= hi THEN lo
    ELSE LET mid == (lo + hi) \div 2
         IN IF x < SumRange(Weights(p), 1, mid + 1)
            THEN Bisect(p, x, lo, mid)
            ELSE Bisect(p, x, mid + 1, hi)

\* random.choices(population, weights, k=1)[0]: r is the value random()
\* returned, in [0, 1); p is not empty
weighted_choice(p, r) ==
    LET total == SumSeq(Weights(p))
    IN p[Bisect(p, FDiv(r * total, One), 0, Len(p) - 1) + 1].tool

\* max(tool_probs.items(), key=lambda x: x[1])[0]: the first key of the
\* largest weight
highest_prob_tool(p) ==
    LET best == CHOOSE i \in 1..Len(p) :
                   /\ \A j \in 1..Len(p) : p[j].weight <= p[i].weight
                   /\ \A j \in 1..(i - 1) : p[j].weight < p[i].weight
    IN p[best].tool

(***************************************************************************)
(* clients/decision_client.py                                              *)
(*                                                                         *)
(* A value (of a JSON member, of a keyword argument) is a record: type   *)
(* says which of str, num and dict carries it.  A string is the sequence   *)
(* of its underscore-terminated words, "take_cover" is <<"take_",          *)
(* "cover">>, so that startswith can be computed.  A response text is a    *)
(* sequence of tokens: "{", "}", "txt" for any other run of characters,    *)
(* or one well-formed "key": value member.                                 *)
(***************************************************************************)
Str(s) == [type |-> "str", str |-> s, num |-> 0, dict |-> EmptyDict]
Num(n) == [type |-> "num", str |-> <<>>, num |-> n, dict |-> EmptyDict]
IsStr(v) == v.type = "str"
LBrace == [kind |-> "{", key |-> "", val |-> Num(0)]
RBrace == [kind |-> "}", key |-> "", val |-> Num(0)]
Prose == [kind |-> "txt", key |-> "", val |-> Num(0)]
Member(k, v) == [kind |-> "member", key |-> k, val |-> v]

\* str.find("{"): the first position of tok, 0 when absent
Find(text, tok) ==
    IF \E i \in 1..Len(text) : text[i] = tok
    THEN CHOOSE i \in 1..Len(text) :
            text[i] = tok /\ \A j \in 1..(i - 1) : text[j] # tok
    ELSE 0

\* str.rfind("}"): the last position of tok, 0 when absent
RFind(text, tok) ==
    IF \E i \in 1..Len(text) : text[i] = tok
    THEN CHOOSE i \in 1..Len(text) :
            text[i] = tok /\ \A j \in (i + 1)..Len(text) : text[j] # tok
    ELSE 0

\* json.loads succeeds on a span that is "{", members, "}"
IsJsonObject(span) ==
    /\ Len(span) >= 2
    /\ span[1] = LBrace
    /\ span[Len(span)] = RBrace
    /\ \A i \in 2..(Len(span) - 1) : span[i].kind = "member"

\* the dict json.loads builds: the last member of a repeated key wins
JsonLoads(span) ==
    LET members == SubSeq(span, 2, Len(span) - 1)
        keys == {members[i].key : i \in 1..Len(members)}
    IN [k \in keys |->
          members[CHOOSE i \in 1..Len(members) :
                      /\ members[i].key = k
                      /\ \A j \in (i + 1)..Len(members) : members[j].key # k].val]

ParseError == [action |-> Str(<<"parse_", "error">>)]

\* _parse_decision_response; the error and raw_response entries of the
\* error dicts are diagnostic strings, kept as one entry
parse_decision_response(response_text) ==
    LET json_start == Find(response_text, LBrace)
        json_end == RFind(response_text, RBrace)
    IN IF json_start = 0 \/ json_end = 0
       THEN ParseError @@ [error |-> Str(<<"No JSON found">>)]
       ELSE LET json_str == SubSeq(response_text, json_start, json_end)
            IN IF IsJsonObject(json_str) THEN JsonLoads(json_str)
               ELSE ParseError @@ [error |-> Str(<<"JSONDecodeError">>)]

\* decide_action: response is what base_client.generate_content returned,
\* [none |-> TRUE] for None
NoResponse == [none |-> TRUE, text |-> <<>>]
Text(t) == [none |-> FALSE, text |-> t]

\* a faulty decide_action: with no response text it answers "retreat"
decide_action_retreat(response) ==
    IF ~response.none /\ response.text # <<>>
    THEN parse_decision_response(response.text)
    ELSE [action |-> Str(<<"retreat">>), error |-> Str(<<"No response from LLM">>)]

decide_action(response) ==
    IF ~response.none /\ response.text # <<>>
    THEN parse_decision_response(response.text)
    ELSE [action |-> Str(<<"default_", "fallback_", "action">>),
          error |-> Str(<<"No response from LLM">>)]

(***************************************************************************)
(* decision_engine.py: _map_action_to_tool and _decision_to_tool           *)
(***************************************************************************)
action_to_tool ==
    (<<"attack">> :> "AttackTool") @@
    (<<"defend">> :> "DefendTool") @@
    (<<"threaten">> :> "ThreatenTool") @@
    (<<"disarm">> :> "DisarmTool") @@
    (<<"stun">> :> "StunTool") @@
    (<<"flee">> :> "FleeTool") @@
    (<<"retreat">> :> "RetreatTool") @@
    (<<"hide">> :> "HideTool") @@
    (<<"approach">> :> "ApproachTool") @@
    (<<"circle">> :> "CircleTool") @@
    (<<"take_", "cover">> :> "TakeCoverTool") @@
    (<<"greet">> :> "GreetTool") @@
    (<<"apologize">> :> "ApologizeTool") @@
    (<<"offer_", "help">> :> "OfferHelpTool") @@
    (<<"befriend">> :> "BefriendTool") @@
    (<<"bargain">> :> "BargainTool") @@
    (<<"request_", "info">> :> "RequestInfoTool") @@
    (<<"express_", "emotion">> :> "ExpressEmotionTool") @@
    (<<"laugh">> :> "LaughTool") @@
    (<<"cry">> :> "CryTool") @@
    (<<"panic">> :> "PanicTool") @@
    (<<"show_", "confusion">> :> "ShowConfusionTool") @@
    (<<"use_", "item">> :> "UseItemTool") @@
    (<<"give_", "item">> :> "GiveItemTool") @@
    (<<"take_", "item">> :> "TakeItemTool") @@
    (<<"examine_", "item">> :> "ExamineItemTool") @@
    (<<"equip_", "item">> :> "EquipItemTool") @@
    (<<"craft_", "item">> :> "CraftItemTool") @@
    (<<"search_", "area">> :> "SearchAreaTool") @@
    (<<"listen">> :> "ListenTool") @@
    (<<"set_", "trap">> :> "SetTrapTool") @@
    (<<"create_", "distraction">> :> "CreateDistraction") @@
    (<<"interact_", "environment">> :> "InteractEnvironmentTool") @@
    (<<"persuade">> :> "PersuadeTool") @@
    (<<"deceive">> :> "DeceiveTool") @@
    (<<"gossip">> :> "GossipTool") @@
    (<<"complain">> :> "ComplainTool") @@
    (<<"comfort">> :> "ComfortTool") @@
    (<<"encourage">> :> "EncourageTool") @@
    (<<"advise">> :> "AdviseTool") @@
    (<<"argue">> :> "ArgueTool") @@
    (<<"observe_", "person">> :> "ObservePersonTool") @@
    (<<"observe_", "environment">> :> "ObserveEnvironmentTool") @@
    (<<"eavesdrop">> :> "EavesdropTool") @@
    (<<"read_", "body_", "language">> :> "ReadBodyLanguageTool") @@
    (<<"investigate_", "anomaly">> :> "InvestigateAnomalyTool") @@
    (<<"eat">> :> "EatTool") @@
    (<<"drink">> :> "DrinkTool") @@
    (<<"rest">> :> "RestTool") @@
    (<<"groom">> :> "GroomTool") @@
    (<<"seek_", "comfort">> :> "SeekComfortTool") @@
    (<<"stretch">> :> "StretchTool") @@
    (<<"pick_", "up_", "object">> :> "PickUpObjectTool") @@
    (<<"put_", "down_", "object">> :> "PutDownObjectTool") @@
    (<<"open_", "object">> :> "OpenObjectTool") @@
    (<<"close_", "object">> :> "CloseObjectTool") @@
    (<<"use_", "everyday_", "object">> :> "UseEverydayObjectTool") @@
    (<<"tidy_", "up">> :> "TidyUpTool") @@
    (<<"prepare_", "food_", "or_", "drink">> :> "PrepareFoodOrDrinkTool") @@
    (<<"ignore">> :> "IgnoreTool") @@
    (<<"avoid">> :> "AvoidTool") @@
    (<<"join_", "group">> :> "JoinGroupTool") @@
    (<<"leave_", "group">> :> "LeaveGroupTool") @@
    (<<"show_", "politeness">> :> "ShowPolitenessTool") @@
    (<<"show_", "impatience">> :> "ShowImpatienceTool") @@
    (<<"ponder">> :> "PonderTool") @@
    (<<"make_", "plan">> :> "MakePlanTool") @@
    (<<"reconsider">> :> "ReconsiderTool") @@
    (<<"daydream">> :> "DaydreamTool") @@
    (<<"recall_", "memory">> :> "RecallMemoryTool") @@
    (<<"focus_", "attention">> :> "FocusAttentionTool") @@
    (<<"sigh">> :> "SighTool") @@
    (<<"fidget">> :> "FidgetTool") @@
    (<<"shift_", "weight">> :> "ShiftWeightTool") @@
    (<<"glance">> :> "GlanceTool") @@
    (<<"raise_", "eyebrow">> :> "RaiseEyebrowTool") @@
    (<<"tighten_", "lips">> :> "TightenLipsTool")

\* action.startswith(prefix) for a prefix ending in an underscore
StartsWith(action, prefix) == Len(action) >= 1 /\ action[1] = prefix

\* a faulty _map_action_to_tool: the generic patterns are left out
map_action_to_tool_table_only(action) ==
    IF action \in DOMAIN action_to_tool THEN action_to_tool[action]
    ELSE "DialogueResponseTool"

map_action_to_tool(action) ==
    IF \/ StartsWith(action, "say_") \/ StartsWith(action, "speak_")
       \/ action = <<"speak">> \/ action = <<"say">>
    THEN "DialogueResponseTool"
    ELSE IF StartsWith(action, "ask_") THEN "AskQuestionTool"
    ELSE IF StartsWith(action, "monologue_") \/ action = <<"monologue">>
    THEN "MonologueTool"
    ELSE IF action \in DOMAIN action_to_tool THEN action_to_tool[action]
    ELSE "DialogueResponseTool"

\* decision.get("action", "dialogue_response")
decision_action(decision) ==
    IF "action" \in DOMAIN decision THEN decision["action"]
    ELSE Str(<<"dialogue_", "response">>)

\* _decision_to_tool: the registry key it returns, or the exception that
\* leaves it (startswith on a value that is no string, get_tool of a
\* missing DialogueResponseTool)
decision_to_tool(reg, decision) ==
    LET action == decision_action(decision)
    IN IF ~IsStr(action) THEN [ok |-> FALSE, error |-> "AttributeError", tool |-> "none"]
       ELSE LET tool_name == map_action_to_tool(action.str)
            IN IF HasTool(reg, tool_name)
               THEN [ok |-> TRUE, error |-> "none", tool |-> tool_name]
               ELSE IF HasTool(reg, "DialogueResponseTool")
               THEN [ok |-> TRUE, error |-> "none", tool |-> "DialogueResponseTool"]
               ELSE [ok |-> FALSE, error |-> "KeyError", tool |-> "none"]

\* the entries of a decision besides the action: the parameters the
\* reasoner returned with it
decision_parameters(decision) ==
    [k \in (DOMAIN decision) \ {"action"} |-> decision[k]]

(***************************************************************************)
(* decision_engine.py: _build_tool_kwargs                                  *)
(***************************************************************************)
\* the personality_context dict: its nine numbers in dict, its "quirks"
\* list in str
personality_context(traits, modifiers, quirks) ==
    [type |-> "dict", str |-> quirks, num |-> 0,
     dict |-> [k \in {"aggressiveness", "extraversion", "neuroticism", "openness",
                      "conscientiousness", "agreeableness", "dominance",
                      "stress", "mood"} |->
                 CASE k = "aggressiveness" -> get_trait(traits, "AGGRESSIVENESS")
                   [] k = "extraversion" -> get_trait(traits, "EXTRAVERSION")
                   [] k = "neuroticism" -> get_trait(traits, "NEUROTICISM")
                   [] k = "openness" -> get_trait(traits, "OPENNESS")
                   [] k = "conscientiousness" -> get_trait(traits, "CONSCIENTIOUSNESS")
                   [] k = "agreeableness" -> get_trait(traits, "AGREEABLENESS")
                   [] k = "dominance" -> get_trait(traits, "DOMINANCE")
                   [] k = "stress" -> get_modifier(modifiers, "STRESS")
                   [] OTHER -> get_modifier(modifiers, "MOOD")]]

\* x * y of two floats
FMul(x, y) == FDiv(x * y, One)

\* stimulus.raw_content or "the situation"
TopicOf(stimulus) ==
    IF stimulus.raw_content = "" THEN Str(<<"the situation">>)
    ELSE Str(<<stimulus.raw_content>>)

Word(s) == Str(<<s>>)

build_tool_kwargs(tool_name, stimulus, traits, modifiers, quirks) ==
    LET T(d) == get_trait(traits, d)
        stress == get_modifier(modifiers, "STRESS")
        mood == get_modifier(modifiers, "MOOD")
    IN CASE tool_name = "dialogue_response" ->
              [prompt |-> Str(<<stimulus.raw_content>>),
               personality_context |-> personality_context(traits, modifiers, quirks),
               tone |-> IF T("AGGRESSIVENESS") > HighBand THEN Word("hostile")
                        ELSE IF T("AGREEABLENESS") > HighBand THEN Word("friendly")
                        ELSE IF T("CONSCIENTIOUSNESS") > HighBand THEN Word("formal")
                        ELSE IF stress > HighBand THEN Word("defensive")
                        ELSE IF T("EXTRAVERSION") < LowBand THEN Word("neutral")
                        ELSE Word("casual")]
         [] tool_name = "ask_question" ->
              [topic |-> TopicOf(stimulus),
               question_type |->
                   IF T("OPENNESS") > HighBand THEN Word("open")
                   ELSE IF T("DOMINANCE") > HighBand THEN Word("leading")
                   ELSE IF T("NEUROTICISM") > HighBand THEN Word("closed")
                   ELSE Word("open")]
         [] tool_name = "monologue" ->
              [topic |-> TopicOf(stimulus),
               style |-> IF T("EXTRAVERSION") > HighBand THEN Word("dramatic")
                         ELSE IF T("OPENNESS") > HighBand THEN Word("philosophical")
                         ELSE IF T("CONSCIENTIOUSNESS") < LowBand THEN Word("rambling")
                         ELSE Word("neutral"),
               length |-> IF T("EXTRAVERSION") > HighBand THEN Word("extended")
                          ELSE IF T("EXTRAVERSION") < LowBand THEN Word("brief")
                          ELSE Word("medium")]
         [] tool_name = "flee" ->
              [caution_level |-> Num(One - T("RISK_TOLERANCE")),
               speed |-> IF stress > HighBand THEN Word("panicked")
                         ELSE IF T("AGGRESSIVENESS") < LowBand THEN Word("fast")
                         ELSE IF T("AGGRESSIVENESS") > HighBand THEN Word("slow")
                         ELSE Word("moderate")]
         [] tool_name = "approach" ->
              [manner |-> IF T("AGGRESSIVENESS") > HighBand THEN Word("aggressive")
                          ELSE IF T("AGREEABLENESS") > HighBand THEN Word("friendly")
                          ELSE IF T("OPENNESS") < LowBand THEN Word("cautious")
                          ELSE IF T("DOMINANCE") < LowBand THEN Word("stealthy")
                          ELSE Word("neutral")]
         [] tool_name = "attack" ->
              [strength |-> Num(Min(One, FMul(T("AGGRESSIVENESS"), Pct(70))
                                         + FMul(stress, Pct(30))))]
         [] tool_name = "defend" ->
              [style |-> IF T("AGGRESSIVENESS") > HighBand THEN Word("aggressive")
                         ELSE IF T("RISK_TOLERANCE") > Half THEN Word("balanced")
                         ELSE Word("cautious")]
         [] tool_name = "threaten" ->
              [intensity |-> Num(Min(One, FMul(T("AGGRESSIVENESS"), Pct(60))
                                          + FMul(T("DOMINANCE"), Pct(40)))),
               threat_type |->
                   IF T("DOMINANCE") > HighBand THEN Word("display_weapon")
                   ELSE IF T("EXTRAVERSION") > HighBand THEN Word("verbal")
                   ELSE Word("physical")]
         [] tool_name = "express_emotion" ->
              [emotion |->
                   IF InSchema(stimulus, "THREAT") \/ InSchema(stimulus, "VIOLENCE")
                   THEN (IF T("NEUROTICISM") > Half THEN Word("fear") ELSE Word("anger"))
                   ELSE IF InSchema(stimulus, "INSULT")
                   THEN (IF T("NEUROTICISM") > Half THEN Word("anger")
                         ELSE Word("disgust"))
                   ELSE IF InSchema(stimulus, "PRAISE") THEN Word("joy")
                   ELSE IF mood < LowBand THEN Word("sadness")
                   ELSE IF mood > HighBand THEN Word("joy")
                   ELSE IF stress > HighBand THEN Word("fear")
                   ELSE Word("neutral"),
               intensity |-> Num(Min(One, FMul(T("NEUROTICISM"), Pct(50))
                                          + FMul(T("EXTRAVERSION"), Pct(30))
                                          + FMul(stress, Pct(20))))]
         [] tool_name = "laugh" ->
              [laugh_type |->
                   IF T("NEUROTICISM") > HighBand THEN Word("nervous")
                   ELSE IF T("AGREEABLENESS") < LowBand
                           /\ (InSchema(stimulus, "INSULT")
                               \/ stimulus.intent = "HUMILIATE")
                   THEN Word("mocking")
                   ELSE IF T("AGREEABLENESS") > HighBand THEN Word("polite")
                   ELSE Word("genuine")]
         [] tool_name = "cry" ->
              [cry_type |->
                   IF InSchema(stimulus, "VIOLENCE") THEN Word("fear")
                   ELSE IF stimulus.intent = "HUMILIATE"
                   THEN (IF T("AGGRESSIVENESS") > Half THEN Word("anger")
                         ELSE Word("sadness"))
                   ELSE Word("sadness"),
               intensity |-> Num(Min(One, FMul(T("NEUROTICISM"), Pct(80))))]
         [] tool_name = "panic" ->
              [containment |-> Num(Max(0, FMul(T("CONSCIENTIOUSNESS"), Pct(70))
                                          - FMul(T("NEUROTICISM"), Pct(30))))]
         [] tool_name = "greet" ->
              [formality |->
                   IF T("CONSCIENTIOUSNESS") > HighBand THEN Word("formal")
                   ELSE IF T("EXTRAVERSION") > HighBand THEN Word("warm")
                   ELSE IF T("AGREEABLENESS") < LowBand THEN Word("cold")
                   ELSE IF T("EXTRAVERSION") < LowBand THEN Word("neutral")
                   ELSE Word("casual")]
         [] tool_name = "befriend" ->
              [approach |->
                   IF T("AGREEABLENESS") > HighBand THEN Word("genuine")
                   ELSE IF T("EXTRAVERSION") > HighBand THEN Word("enthusiastic")
                   ELSE IF T("OPENNESS") < LowBand THEN Word("cautious")
                   ELSE IF T("AGREEABLENESS") < LowBand THEN Word("manipulative")
                   ELSE Word("genuine")]
         [] OTHER -> EmptyDict

\* tool_instance.execute(**kwargs): every tool formats its keyword
\* arguments (declared ones with defaults, the rest swallowed by **kwargs)
\* into one description string; the string is kept as what determines it
execute(tool_name, kwargs) == [description |-> tool_name, rendered |-> kwargs]

(***************************************************************************)
(* Actor/actor.py                                                          *)
(***************************************************************************)
\* Actor.__init__: an empty deque and two empty lists
NewActor ==
    [unprocessed_stimuli_queue |-> <<>>, interpreted_stimuli_history |-> <<>>,
     memorized_items |-> <<>>]

\* what get_next_raw_stimulus returns on an empty queue
None == [event_id |-> "None"]

\* a faulty get_next_raw_stimulus: the stimulus added last is taken
get_next_raw_stimulus_newest(queue) ==
    IF queue # <<>>
    THEN [result |-> queue[Len(queue)], queue |-> SubSeq(queue, 1, Len(queue) - 1)]
    ELSE [result |-> None, queue |-> queue]

\* get_next_raw_stimulus on the deque: what it returns and the deque it
\* leaves (popleft when the deque is not empty)
get_next_raw_stimulus(queue) ==
    IF queue # <<>>
    THEN [result |-> Head(queue), queue |-> Tail(queue)]
    ELSE [result |-> None, queue |-> queue]

(***************************************************************************)
(* Inputs of the exploration                                               *)
(***************************************************************************)
\* intent=None
NoIntent == "NONE"

Stimulus(raw, actor, type, schema, intent, salience) ==
    [raw_content |-> raw, actor |-> actor, stimulus_type |-> type,
     schema |-> schema, intent |-> intent, salience |-> salience]

Insulting ==
    Stimulus("You are a coward", "Player", "DIALOGUE", <<"INSULT">>, "HUMILIATE",
             ("EMOTIONAL" :> Pct(90)))
Threatening ==
    Stimulus("*raises weapon*", "Player", "ACTION", <<"THREAT">>, "WARN",
             ("EMOTIONAL" :> One))
Idle ==
    Stimulus("*walks past*", "Stranger", "ACTION", <<>>, "TEST_LOYALTY", EmptyDict)
Praising ==
    Stimulus("Well done", "Player", "DIALOGUE", <<"PRAISE">>, "BUILD_RAPPORT",
             ("EMOTIONAL" :> Pct(60)) @@ ("RELATIONSHIP" :> Pct(40)))
Stimuli == {Insulting, Threatening, Idle, Praising}

\* a threat with no intent and no salience entry, outside the four above
BareThreat ==
    Stimulus("*glares*", "Stranger", "GESTURE", <<"THREAT">>, NoIntent, EmptyDict)

\* the stimulus field of the record of a call before any call was made
NoStimulus == Stimulus("", "", "DIALOGUE", <<>>, NoIntent, EmptyDict)

\* randomness=0.15 of line 432
JitterSpread == Pct(15)

\* the passes of random.uniform(-0.15, 0.15) over the dict that are
\* explored: every key lowered as far as can be, every key unmoved, and the
\* two extremes alternating
Jitters ==
    { [odd |-> -JitterSpread, even |-> -JitterSpread],
      [odd |-> 0, even |-> 0],
      [odd |-> -JitterSpread, even |-> JitterSpread] }

\* the values random() returns inside random.choices
Draws == {0, One - 1}

\* What generate_content returns to the DecisionClient.
\* prose with no object in it, and braces around what is no JSON
NoPayload == Text(<<Prose>>)
BrokenPayload == Text(<<LBrace, Prose, RBrace>>)
\* an object whose action is a string / is the given value
ActionText(action) == Text(<<LBrace, Member("action", Str(action)), RBrace>>)
\* an action with no entry in the table and of no generic pattern
UnknownAction == ActionText(<<"juggle">>)
\* table actions with parameters, the second with prose around the object
AttackPlayer ==
    Text(<<LBrace, Member("action", Str(<<"attack">>)),
           Member("target", Str(<<"Player">>)),
           Member("weapon", Str(<<"sword">>)), RBrace>>)
ExpressAnger ==
    Text(<<Prose, LBrace, Member("action", Str(<<"express_", "emotion">>)),
           Member("emotion", Str(<<"anger">>)),
           Member("intensity", Num(Pct(80))), RBrace, Prose>>)
\* an action that is a number
NumberAction == Text(<<LBrace, Member("action", Num(7)), RBrace>>)

Responses ==
    { NoResponse, NoPayload, BrokenPayload, UnknownAction, AttackPlayer,
      ExpressAnger, ActionText(<<"say_", "hello">>), NumberAction }

\* The personalities an engine is built over: Personality(name) with no
\* trait set, and the "aggressive" preset of PersonalityFactory.
Blank == [traits |-> EmptyDict, modifiers |-> EmptyDict, quirks |-> <<>>]
Aggressive ==
    [traits |-> ("AGGRESSIVENESS" :> Pct(90)) @@ ("DOMINANCE" :> Pct(80)) @@
                ("NEUROTICISM" :> Pct(70)) @@ ("AGREEABLENESS" :> Pct(20)) @@
                ("RISK_TOLERANCE" :> Pct(70)),
     modifiers |-> EmptyDict,
     quirks |-> <<"Quick to anger", "Enjoys intimidation">>]

Personalities == {Blank, Aggressive}

\* decision_client: None, the DecisionClient over a BaseClient, or a client
\* whose decide_action raises on every call
ClientKinds == {"none", "gemini", "raising"}

(***************************************************************************)
(* State                                                                   *)
(***************************************************************************)
VARIABLES
    registry,           \* _TOOL_REGISTRY
    use_llm,            \* DecisionEngine.use_llm
    decision_client,    \* DecisionEngine.decision_client
    traits,             \* DecisionEngine.personality.traits
    modifiers,          \* DecisionEngine.personality.modifiers
    quirks,             \* DecisionEngine.personality.quirks
    decision_history,   \* DecisionEngine.decision_history
    tools_by_category,  \* DecisionEngine._tools_by_category
    calls,              \* the decide_and_act calls made so far, in order
    last,               \* what the most recent decide_and_act call did
    ops,                \* the other operations made so far, in order
    actor               \* the fields of the Actor

vars == <<registry, use_llm, decision_client, traits, modifiers, quirks,
          decision_history, tools_by_category, calls, last, ops, actor>>

NoDist == <<>>

(***************************************************************************)
(* decision_engine.py: _select_tool, _llm_select_tool, _mock_llm_select    *)
(*                                                                         *)
(* A selection is a record: ok and tool when a class is returned, error    *)
(* when an exception leaves _select_tool; steps lists what ran, dist is    *)
(* the distribution _calculate_tool_probabilities returned (NoDist when    *)
(* it did not run), decision the dict the client returned.                 *)
(***************************************************************************)
Selection(ok, error, tool, path, steps, dist, decision) ==
    [ok |-> ok, error |-> error, tool |-> tool, path |-> path, steps |-> steps,
     dist |-> dist, decision |-> decision]

\* lines 163-173 and 198-201: the weighted draw from the distribution; an
\* empty one raises ValueError (line 167, or the unpacking of zip() at 199)
sample_tool(reg, dist, r, path, steps, decision) ==
    IF dist = <<>>
    THEN Selection(FALSE, "ValueError", "none", path,
                   steps \o <<"calculate_tool_probabilities">>, dist, decision)
    ELSE LET selected_tool == weighted_choice(dist, r)
         IN IF HasTool(reg, selected_tool)
            THEN Selection(TRUE, "none", selected_tool, path,
                           steps \o <<"calculate_tool_probabilities", "random.choices">>,
                           dist, decision)
            ELSE Selection(FALSE, "KeyError", "none", path,
                           steps \o <<"calculate_tool_probabilities", "random.choices">>,
                           dist, decision)

\* a faulty _mock_llm_select: an empty distribution raises as it does on the
\* heuristic path
mock_llm_select_no_fallback(reg, dist) ==
    IF dist = <<>>
    THEN Selection(FALSE, "ValueError", "none", "mock",
                   <<"calculate_tool_probabilities">>, dist, EmptyDict)
    ELSE Selection(TRUE, "none", highest_prob_tool(dist), "mock",
                   <<"calculate_tool_probabilities", "max">>, dist, EmptyDict)

\* _mock_llm_select then get_tool
mock_llm_select(reg, dist) ==
    LET tool_name == IF dist # <<>> THEN highest_prob_tool(dist)
                     ELSE "DialogueResponseTool"
    IN IF HasTool(reg, tool_name)
       THEN Selection(TRUE, "none", tool_name, "mock",
                      <<"calculate_tool_probabilities", "max">>, dist, EmptyDict)
       ELSE Selection(FALSE, "KeyError", "none", "mock",
                      <<"calculate_tool_probabilities", "max">>, dist, EmptyDict)

\* _llm_select_tool: client_raises says decide_action raised, response is
\* what generate_content returned otherwise
llm_select_tool(reg, client_raises, response, dist, r) ==
    IF client_raises
    THEN sample_tool(reg, dist, r, "llm", <<"decide_action", "except">>, EmptyDict)
    ELSE LET decision == decide_action(response)
             mapped == decision_to_tool(reg, decision)
         IN IF mapped.ok
            THEN Selection(TRUE, "none", mapped.tool, "llm",
                           <<"decide_action", "decision_to_tool">>, NoDist, decision)
            ELSE sample_tool(reg, dist, r, "llm",
                             <<"decide_action", "decision_to_tool", "except">>,
                             decision)

\* whether the try block of _llm_select_tool raises
llm_try_fails(reg, client_kind, response) ==
    \/ client_kind = "raising"
    \/ ~decision_to_tool(reg, decide_action(response)).ok

\* a faulty _select_tool: a client that is present is asked whatever the flag
select_tool_client_first(reg, llm, client_kind, response, dist, r) ==
    IF client_kind # "none"
    THEN llm_select_tool(reg, client_kind = "raising", response, dist, r)
    ELSE IF llm THEN mock_llm_select(reg, dist)
    ELSE sample_tool(reg, dist, r, "heuristic", <<>>, EmptyDict)

\* lines 154-173
select_tool(reg, llm, client_kind, response, dist, r) ==
    IF llm
    THEN IF client_kind # "none"
         THEN llm_select_tool(reg, client_kind = "raising", response, dist, r)
         ELSE mock_llm_select(reg, dist)
    ELSE sample_tool(reg, dist, r, "heuristic", <<>>, EmptyDict)

(***************************************************************************)
(* decision_engine.py: decide_and_act                                      *)
(***************************************************************************)
\* a faulty decide_and_act: the salience of the stimulus is used up
stimulus_after_call_consumed(stimulus) == [stimulus EXCEPT !.salience = EmptyDict]

\* The stimulus object as a decide_and_act call leaves it.  The call hands
\* the object to _update_modifiers, _select_tool and _build_tool_kwargs;
\* they read its type, schema, intent, salience and raw_content and assign
\* to none of them, and what of it goes into the kwargs is a string.
stimulus_after_call(stimulus) == stimulus

\* The record of one call: outcome is "returned" or "raised".  stimulus is
\* the object as it was given and stimulus_after as the call leaves it (the
\* history holds the object itself, so in that state).  dist is what
\* _calculate_tool_probabilities returns in this call if it is reached, r the
\* value random.choices draws.
decide_and_act(stimulus, response, dist, r) ==
    LET updated == update_modifiers(modifiers, stimulus)
        sel == select_tool(registry, use_llm, decision_client, response, dist, r)
    IN IF ~sel.ok
       THEN [stimulus |-> stimulus, stimulus_after |-> stimulus_after_call(stimulus),
             response |-> response,
             outcome |-> "raised", error |-> sel.error,
             path |-> sel.path, steps |-> <<"update_modifiers">> \o sel.steps,
             tool |-> "none", name |-> "none", kwargs |-> EmptyDict,
             result |-> execute("none", EmptyDict), dist |-> sel.dist,
             decision |-> sel.decision, modifiers |-> updated]
       ELSE LET tool_instance == get_tool(registry, sel.tool)
                kwargs == build_tool_kwargs(tool_instance.name, stimulus, traits,
                                            updated, quirks)
            IN [stimulus |-> stimulus,
                stimulus_after |-> stimulus_after_call(stimulus),
                response |-> response,
                outcome |-> "returned", error |-> "none",
                path |-> sel.path,
                steps |-> <<"update_modifiers">> \o sel.steps
                          \o <<"build_tool_kwargs", "execute", "append">>,
                tool |-> sel.tool, name |-> tool_instance.name, kwargs |-> kwargs,
                result |-> execute(tool_instance.name, kwargs), dist |-> sel.dist,
                decision |-> sel.decision, modifiers |-> updated]

NoCall ==
    [stimulus |-> NoStimulus, stimulus_after |-> NoStimulus,
     response |-> NoResponse,
     outcome |-> "none", error |-> "none", path |-> "none",
     steps |-> <<>>, tool |-> "none", name |-> "none", kwargs |-> EmptyDict,
     result |-> execute("none", EmptyDict), dist |-> NoDist, decision |-> EmptyDict,
     modifiers |-> EmptyDict]

\* a faulty record_decision: the new record is put in front of the history
record_decision_in_front(history, stimulus, name) ==
    <<(<<stimulus, name>>)>> \o history

\* lines 86-88: self.decision_history.append((stimulus, tool_instance.name))
record_decision(history, stimulus, name) == Append(history, <<stimulus, name>>)

\* a faulty decide_and_act: a call that raises leaves the modifiers as they
\* were
Call_atomic(run) ==
    /\ modifiers' = IF run.outcome = "returned" THEN run.modifiers ELSE modifiers
    /\ decision_history' =
          IF run.outcome = "returned"
          THEN Append(decision_history, <<run.stimulus_after, run.name>>)
          ELSE decision_history
    /\ calls' = Append(calls, [stimulus |-> run.stimulus, outcome |-> run.outcome,
                               name |-> run.name])
    /\ last' = run
    /\ UNCHANGED <<registry, use_llm, decision_client, traits, quirks,
                   tools_by_category, ops, actor>>

\* The effect of one call on the engine: the modifiers are written before the
\* selection, the history only once execute has returned.
Call(run) ==
    /\ modifiers' = run.modifiers
    /\ decision_history' =
          IF run.outcome = "returned"
          THEN record_decision(decision_history, run.stimulus_after, run.name)
          ELSE decision_history
    /\ calls' = Append(calls, [stimulus |-> run.stimulus, outcome |-> run.outcome,
                               name |-> run.name])
    /\ last' = run
    /\ UNCHANGED <<registry, use_llm, decision_client, traits, quirks,
                   tools_by_category, ops, actor>>

\* whether the call reaches _calculate_tool_probabilities, and whether it
\* then draws with random.choices
UsesJitter(response) ==
    ~use_llm \/ decision_client = "none"
    \/ llm_try_fails(registry, decision_client, response)
UsesDraw(response) == UsesJitter(response) /\ ~(use_llm /\ decision_client = "none")

SomeJitter == CHOOSE j \in Jitters : TRUE
SomeDraw == CHOOSE r \in Draws : TRUE

\* a faulty decide_and_act: the tools are weighted on the modifiers as they
\* were before the update for the stimulus
DecideAndActOn_stale(stimuli, responses) ==
    /\ Len(calls) < MaxCalls
    /\ \E stimulus \in stimuli :
       \E before \in {weights_before_jitter(tools_by_category, traits, modifiers,
                                            stimulus)} :
       \E response \in (IF use_llm /\ decision_client = "gemini"
                        THEN responses ELSE {NoResponse}) :
       \E jitter \in (IF UsesJitter(response) THEN Jitters
                      ELSE {SomeJitter}) :
       \E dist \in {calculate_tool_probabilities(before, jitter)} :
       \E r \in (IF UsesDraw(response) THEN Draws ELSE {SomeDraw}) :
          Call(decide_and_act(stimulus, response, dist, r))

\* One decide_and_act(stimulus) call with the stimulus drawn from stimuli
\* and the client's answer from responses.  The inputs that the path taken
\* does not read are fixed rather than enumerated.
DecideAndActOn(stimuli, responses) ==
    /\ Len(calls) < MaxCalls
    /\ \E stimulus \in stimuli :
       \E before \in {weights_before_jitter(tools_by_category, traits,
                                            update_modifiers(modifiers, stimulus),
                                            stimulus)} :
       \E response \in (IF use_llm /\ decision_client = "gemini"
                        THEN responses ELSE {NoResponse}) :
       \E jitter \in (IF UsesJitter(response) THEN Jitters
                      ELSE {SomeJitter}) :
       \E dist \in {calculate_tool_probabilities(before, jitter)} :
       \E r \in (IF UsesDraw(response) THEN Draws ELSE {SomeDraw}) :
          Call(decide_and_act(stimulus, response, dist, r))

DecideAndAct ==
    /\ Len(calls) < MaxCalls
    /\ DecideAndActOn(Stimuli, Responses)

\* lines 64-66 of __init__: update_modifier(MOOD, 0.5), then
\* update_modifier(STRESS, 0.2), on the personality the engine is given
init_modifiers(given) ==
    update_modifier(update_modifier(given, "MOOD", Half), "STRESS", Pct(20))

\* DecisionEngine(use_llm, personality, decision_client) once the toolbox is
\* imported: __init__ sets MOOD to 0.5 and STRESS to 0.2
Init ==
    /\ registry = StartupRegistry
    /\ use_llm \in BOOLEAN
    /\ decision_client \in ClientKinds
    /\ \E personality \in Personalities :
          /\ traits = post_init_traits(personality.traits)
          /\ quirks = personality.quirks
          /\ modifiers = init_modifiers(personality.modifiers)
    /\ decision_history = <<>>
    /\ tools_by_category = organize_tools_by_category(registry)
    /\ calls = <<>>
    /\ last = NoCall
    /\ ops = <<>>
    /\ actor = NewActor

Next == DecideAndAct


Spec == Init /\ [][Next]_vars

(***************************************************************************)
(* _decision_to_tool over the action identifiers                           *)
(*                                                                         *)
(* MapSpec applies one decide_and_act call of an engine that asks its      *)
(* client to each identifier: every key of the table, identifiers of the   *)
(* generic patterns, and identifiers of neither.                           *)
(***************************************************************************)
Identifiers ==
    (DOMAIN action_to_tool)
    \cup { <<"say_", "hello">>, <<"say">>, <<"speak_", "up">>, <<"speak">>,
           <<"ask_", "why">>, <<"ask_", "for_", "help">>,
           <<"monologue_", "long">>, <<"monologue">> }
    \cup { <<"juggle">>, <<"saying">>, <<"attack_", "now">>, <<>>,
           <<"default_", "fallback_", "action">>, <<"parse_", "error">>,
           <<"dialogue_", "response">> }

MapDecision ==
    /\ calls = <<>>
    /\ DecideAndActOn({Insulting}, {ActionText(a) : a \in Identifiers})

MapInit == Init /\ use_llm /\ decision_client = "gemini"

MapNext == MapDecision

MapSpec == MapInit /\ [][MapNext]_vars

(***************************************************************************)
(* A Personality and what is done to it                                    *)
(*                                                                         *)
(* PersSpec starts from a Personality as its constructor leaves it, with   *)
(* no engine yet.  Its steps are update_modifier calls on the personality, *)
(* the construction of a DecisionEngine over it (the engine variables then *)
(* describe the engine constructed last) and decide_and_act calls of that  *)
(* engine.                                                                 *)
(***************************************************************************)
\* steps of one behaviour: operations and decide_and_act calls together
MaxOps == 3

\* numbers given where a float of [0, 1] is expected, in range and out of it
GivenValues == {-5 * One, Pct(30), 10 * One}

\* the traits and modifiers arguments of Personality(...)
ConstructorTraits ==
    { EmptyDict,
      ("OPENNESS" :> Half) @@ ("AGGRESSIVENESS" :> Pct(90)),
      ("OPENNESS" :> 10 * One) @@ ("DOMINANCE" :> -5 * One) }
ConstructorModifiers ==
    { EmptyDict,
      ("TRUST" :> Pct(40)),
      ("TRUST" :> 5 * One) @@ ("MOOD" :> -2 * One) }

\* the (use_llm, decision_client) arguments of the engines constructed
EngineArgs ==
    { [use_llm |-> TRUE, decision_client |-> "gemini"],
      [use_llm |-> FALSE, decision_client |-> "none"] }

Steps == Len(calls) + Len(ops)

\* a DecisionEngine has been constructed over the personality
HasEngine == \E i \in 1..Len(ops) : ops[i].op = "DecisionEngine"

\* personality.update_modifier(modifier, value), called from outside the
\* engine
UpdateModifier ==
    /\ Steps < MaxOps
    /\ \E modifier \in {"MOOD", "TRUST"}, value \in GivenValues :
          /\ modifiers' = update_modifier(modifiers, modifier, value)
          /\ ops' = Append(ops, [op |-> "update_modifier", modifier |-> modifier,
                                 value |-> value])
    /\ UNCHANGED <<registry, use_llm, decision_client, traits, quirks,
                   decision_history, tools_by_category, calls, last, actor>>

\* DecisionEngine(use_llm, personality, decision_client) over the
\* personality: the whole of __init__
NewEngine ==
    /\ Steps < MaxOps
    /\ \E args \in EngineArgs :
          /\ use_llm' = args.use_llm
          /\ decision_client' = args.decision_client
          /\ ops' = Append(ops, [op |-> "DecisionEngine", use_llm |-> args.use_llm,
                                 decision_client |-> args.decision_client])
    /\ modifiers' = init_modifiers(modifiers)
    /\ decision_history' = <<>>
    /\ tools_by_category' = organize_tools_by_category(registry)
    /\ UNCHANGED <<registry, traits, quirks, calls, last, actor>>

\* decide_and_act of the engine constructed last
PersDecideAndAct ==
    /\ Steps < MaxOps
    /\ HasEngine
    /\ DecideAndActOn({Insulting, Praising}, {AttackPlayer})

\* Personality(name, traits, modifiers): __post_init__ has run, no engine
\* exists
PersInit ==
    /\ registry = StartupRegistry
    /\ use_llm = FALSE
    /\ decision_client = "none"
    /\ \E given \in ConstructorTraits : traits = post_init_traits(given)
    /\ modifiers \in ConstructorModifiers
    /\ quirks = <<>>
    /\ decision_history = <<>>
    /\ tools_by_category = EmptyDict
    /\ calls = <<>>
    /\ last = NoCall
    /\ ops = <<>>
    /\ actor = NewActor

PersNext == UpdateModifier \/ NewEngine \/ PersDecideAndAct

PersSpec == PersInit /\ [][PersNext]_vars

(***************************************************************************)
(* The pure methods of a Personality                                       *)
(*                                                                         *)
(* FnSpec calls influence_value and add_randomness on a Personality as its *)
(* constructor leaves it; ops records each call with what it returned.     *)
(***************************************************************************)
\* calls of the pure methods in one behaviour
MaxProbes == 1

\* base values and values to randomise, in [0, 1] and outside it
BaseValues == {-5 * One, 0, Pct(5), Half, Pct(90), One, 10 * One}

\* influence strengths, of both signs, within the documented 0.0-1.0 and
\* beyond it
Strengths == {-3 * One, -Pct(30), 0, Pct(30), One, 3 * One}

\* the randomness argument: the half-width of the interval drawn from
Spreads == {0, Pct(10), Pct(15), Half}

InfluenceValue ==
    /\ Len(ops) < MaxProbes
    /\ \E base_value \in BaseValues, influence_strength \in Strengths,
          trait \in {"OPENNESS", "DOMINANCE", "AGGRESSIVENESS", "NEUROTICISM"} :
          ops' = Append(ops,
                        [op |-> "influence_value", base_value |-> base_value,
                         trait |-> trait, influence_strength |-> influence_strength,
                         result |-> influence_value(traits, base_value, trait,
                                                    influence_strength)])
    /\ UNCHANGED <<registry, use_llm, decision_client, traits, modifiers, quirks,
                   decision_history, tools_by_category, calls, last, actor>>

AddRandomness ==
    /\ Len(ops) < MaxProbes
    /\ \E value \in BaseValues, randomness \in Spreads :
       \E random_factor \in uniform(-randomness, randomness) :
          ops' = Append(ops,
                        [op |-> "add_randomness", value |-> value,
                         randomness |-> randomness,
                         result |-> add_randomness(value, random_factor)])
    /\ UNCHANGED <<registry, use_llm, decision_client, traits, modifiers, quirks,
                   decision_history, tools_by_category, calls, last, actor>>

FnInit == PersInit

FnNext == InfluenceValue \/ AddRandomness

FnSpec == FnInit /\ [][FnNext]_vars

(***************************************************************************)
(* The registry on its own                                                 *)
(*                                                                         *)
(* RegSpec starts from the empty _TOOL_REGISTRY of line 8 and makes        *)
(* register_tool and get_tool calls; ops records each call, a get_tool     *)
(* with its outcome.                                                       *)
(***************************************************************************)
\* Classes that get registered: DialogueResponseTool, and the DeceiveTool and
\* PersuadeTool classes that dialogue_tools and communication_tools both
\* define
RegisteredClasses ==
    {c \in Range(Registrations) :
        c.cls \in {"DialogueResponseTool", "DeceiveTool", "PersuadeTool"}}

\* names looked up: those of the classes, and one no class has
LookupNames == {"DialogueResponseTool", "DeceiveTool", "PersuadeTool", "NoSuchTool"}

\* the result field of a get_tool call that raised
NoClass == [cls |-> "none", module |-> "none", name |-> "none"]

RegisterTool ==
    /\ Len(ops) < MaxOps
    /\ \E c \in RegisteredClasses :
          /\ registry' = register_tool(registry, c)
          /\ ops' = Append(ops, [op |-> "register_tool", class |-> c])
    /\ UNCHANGED <<use_llm, decision_client, traits, modifiers, quirks,
                   decision_history, tools_by_category, calls, last, actor>>

\* get_tool(tool_name): the class under the key, KeyError when it is absent
GetTool ==
    /\ Len(ops) < MaxOps
    /\ \E tool_name \in LookupNames :
          ops' = Append(ops,
                        IF HasTool(registry, tool_name)
                        THEN [op |-> "get_tool", tool_name |-> tool_name,
                              outcome |-> "returned",
                              result |-> get_tool(registry, tool_name)]
                        ELSE [op |-> "get_tool", tool_name |-> tool_name,
                              outcome |-> "KeyError", result |-> NoClass])
    /\ UNCHANGED <<registry, use_llm, decision_client, traits, modifiers, quirks,
                   decision_history, tools_by_category, calls, last, actor>>

RegInit ==
    /\ registry = <<>>
    /\ use_llm = FALSE
    /\ decision_client = "none"
    /\ traits = EmptyDict
    /\ modifiers = EmptyDict
    /\ quirks = <<>>
    /\ decision_history = <<>>
    /\ tools_by_category = EmptyDict
    /\ calls = <<>>
    /\ last = NoCall
    /\ ops = <<>>
    /\ actor = NewActor

RegNext == RegisterTool \/ GetTool

RegSpec == RegInit /\ [][RegNext]_vars

(***************************************************************************)
(* Stimuli from their constructor to the engine                            *)
(*                                                                         *)
(* StimSpec constructs stimuli, of known and of unknown field values, and  *)
(* gives those whose construction returned to decide_and_act of an engine  *)
(* that has no client (the prompt a DecisionClient builds reads .value of  *)
(* the type and of the intent, which no plain string has).                 *)
(***************************************************************************)
\* the arguments given to InterpretedStimulus(...): for each validated
\* kind of field, members of its enumeration and a value outside it
GivenTypes == {"DIALOGUE", "UNKNOWN_TYPE"}
GivenSchemas ==
    { <<>>, <<"INSULT">>, <<"UNKNOWN_SCHEMA">>, <<"INSULT", "UNKNOWN_SCHEMA">>,
      <<"HUMILIATE">> }
GivenIntents == {"HUMILIATE", "UNKNOWN_INTENT"}

ConstructStimulus ==
    /\ Len(ops) < MaxProbes
    /\ \E type \in GivenTypes, schema \in GivenSchemas, intent \in GivenIntents :
          LET stimulus == Stimulus("You are a coward", "Player", type, schema,
                                   intent, ("EMOTIONAL" :> Pct(90)))
          IN ops' = Append(ops, [op |-> "InterpretedStimulus",
                                 stimulus |-> stimulus,
                                 outcome |-> post_init_stimulus(stimulus)])
    /\ UNCHANGED <<registry, use_llm, decision_client, traits, modifiers, quirks,
                   decision_history, tools_by_category, calls, last, actor>>

\* the stimuli whose construction returned
Constructed ==
    {ops[i].stimulus : i \in {j \in 1..Len(ops) : ops[j].outcome = "constructed"}}

StimDecideAndAct == DecideAndActOn(Constructed, {NoResponse})

StimInit == Init /\ decision_client = "none"

StimNext == ConstructStimulus \/ StimDecideAndAct

StimSpec == StimInit /\ [][StimNext]_vars

(***************************************************************************)
(* Tool modules imported while an engine exists                            *)
(*                                                                         *)
(* The toolbox package imports fourteen of its tool modules; needs_tools   *)
(* and perception_tools register their classes when something imports     *)
(* them.  LateSpec starts from a heuristic engine over the startup         *)
(* registry; its steps are the import of one of the two modules, the       *)
(* construction of a new engine and decide_and_act calls of the engine     *)
(* constructed last.                                                       *)
(***************************************************************************)
\* the @register_tool decorations of the two modules, in file order
LateRegistrations ==
    [needs_tools |->
        << [cls |-> "SeekShelterTool", module |-> "needs_tools", name |-> "seek_shelter"],
           [cls |-> "RestTool", module |-> "needs_tools", name |-> "rest"],
           [cls |-> "FindFoodTool", module |-> "needs_tools", name |-> "find_food"],
           [cls |-> "FindWaterTool", module |-> "needs_tools", name |-> "find_water"],
           [cls |-> "HealSelfTool", module |-> "needs_tools", name |-> "heal_self"],
           [cls |-> "WarmSelfTool", module |-> "needs_tools", name |-> "warm_self"] >>,
     perception_tools |->
        << [cls |-> "ScanForThreatsTool", module |-> "perception_tools",
            name |-> "scan_for_threats"],
           [cls |-> "DetectMagicTool", module |-> "perception_tools",
            name |-> "detect_magic"],
           [cls |-> "AssessIntentTool", module |-> "perception_tools",
            name |-> "assess_intent"],
           [cls |-> "IdentifyObjectTool", module |-> "perception_tools",
            name |-> "identify_object"],
           [cls |-> "TrackTargetTool", module |-> "perception_tools",
            name |-> "track_target"],
           [cls |-> "EavesdropTool", module |-> "perception_tools",
            name |-> "eavesdrop"] >>]

\* import of a tool module that is not imported yet: its decorators run in
\* file order; no engine is told
ImportToolModule ==
    /\ Steps < MaxOps
    /\ \E module \in DOMAIN LateRegistrations :
          /\ \A i \in 1..Len(ops) : ops[i].op = "import" => ops[i].module # module
          /\ registry' = RegisterAll(registry, LateRegistrations[module], 1,
                                     Len(LateRegistrations[module]))
          /\ ops' = Append(ops, [op |-> "import", module |-> module])
    /\ UNCHANGED <<use_llm, decision_client, traits, modifiers, quirks,
                   decision_history, tools_by_category, calls, last, actor>>

LateDecideAndAct ==
    /\ Steps < MaxOps
    /\ DecideAndActOn({Idle, BareThreat}, {NoResponse})

LateInit == Init /\ ~use_llm /\ decision_client = "none"

LateNext == ImportToolModule \/ NewEngine \/ LateDecideAndAct

LateSpec == LateInit /\ [][LateNext]_vars

(***************************************************************************)
(* An Actor and its stimulus queue                                         *)
(*                                                                         *)
(* ActorSpec starts from a new Actor, with no engine; its steps are the    *)
(* four methods of the Actor in any order.                                 *)
(***************************************************************************)
\* method calls made on the actor in one behaviour
MaxActorOps == 4

\* the RawStimulus objects the actor perceives: that of the demo and a second
\* one (event_id is the uuid the constructor draws)
RawStimuli ==
    { [event_id |-> "e1", channel |-> "TEXTUAL",
       content |-> "Hello, are you done with the report?",
       actors |-> <<"Jane">>, target |-> <<"John">>],
      [event_id |-> "e2", channel |-> "VISUAL", content |-> "*waves*",
       actors |-> <<"Jane">>, target |-> <<>>] }

\* add_raw_stimulus(stimulus): append on the deque
AddRawStimulus ==
    /\ Len(ops) < MaxActorOps
    /\ \E stimulus \in RawStimuli :
          /\ actor' = [actor EXCEPT !.unprocessed_stimuli_queue = Append(@, stimulus)]
          /\ ops' = Append(ops, [op |-> "add_raw_stimulus", stimulus |-> stimulus])
    /\ UNCHANGED <<registry, use_llm, decision_client, traits, modifiers, quirks,
                   decision_history, tools_by_category, calls, last>>

GetNextRawStimulus ==
    /\ Len(ops) < MaxActorOps
    /\ \E got \in {get_next_raw_stimulus(actor.unprocessed_stimuli_queue)} :
          /\ actor' = [actor EXCEPT !.unprocessed_stimuli_queue = got.queue]
          /\ ops' = Append(ops, [op |-> "get_next_raw_stimulus",
                                 result |-> got.result])
    /\ UNCHANGED <<registry, use_llm, decision_client, traits, modifiers, quirks,
                   decision_history, tools_by_category, calls, last>>

\* add_interpreted_stimulus(stimulus)
AddInterpretedStimulus ==
    /\ Len(ops) < MaxActorOps
    /\ actor' = [actor EXCEPT !.interpreted_stimuli_history = Append(@, Insulting)]
    /\ ops' = Append(ops, [op |-> "add_interpreted_stimulus"])
    /\ UNCHANGED <<registry, use_llm, decision_client, traits, modifiers, quirks,
                   decision_history, tools_by_category, calls, last>>

\* add_to_memory(interpreted_stimulus)
AddToMemory ==
    /\ Len(ops) < MaxActorOps
    /\ actor' = [actor EXCEPT !.memorized_items = Append(@, Insulting)]
    /\ ops' = Append(ops, [op |-> "add_to_memory"])
    /\ UNCHANGED <<registry, use_llm, decision_client, traits, modifiers, quirks,
                   decision_history, tools_by_category, calls, last>>

\* Actor(actor_id, interpretation_modifiers); nothing else exists
ActorInit == RegInit

ActorNext ==
    AddRawStimulus \/ GetNextRawStimulus \/ AddInterpretedStimulus \/ AddToMemory

ActorSpec == ActorInit /\ [][ActorNext]_vars

(***************************************************************************)
(* A long run of calls on one engine                                       *)
(*                                                                         *)
(* StressSpec makes up to MaxStressCalls decide_and_act calls on an engine *)
(* with use_llm set and no client, enough for the stress to go from the    *)
(* 0.2 of __init__ to its cap.  Each pass of the jitter leaves every        *)
(* weight where it is.                                                     *)
(***************************************************************************)
MaxStressCalls == 6

StressDecideAndAct ==
    /\ Len(calls) < MaxStressCalls
    /\ \E stimulus \in {Threatening, BareThreat, Praising} :
       \E before \in {weights_before_jitter(tools_by_category, traits,
                                            update_modifiers(modifiers, stimulus),
                                            stimulus)} :
       \E dist \in {calculate_tool_probabilities(before, [odd |-> 0, even |-> 0])} :
          Call(decide_and_act(stimulus, NoResponse, dist, SomeDraw))

StressInit == Init /\ use_llm /\ decision_client = "none"

StressNext == StressDecideAndAct

StressSpec == StressInit /\ [][StressNext]_vars

(***************************************************************************)
(* Properties                                                              *)
(***************************************************************************)
\* a decide_and_act call has been made
Called == last.outcome # "none"

\* the most recent call ran the step
Ran(step) == \E i \in 1..Len(last.steps) : last.steps[i] = step

\* the step ran, and before the other one
RanBefore(first, second) ==
    \E i \in 1..Len(last.steps) :
       /\ last.steps[i] = first
       /\ \E j \in (i + 1)..Len(last.steps) : last.steps[j] = second

\* the engine asks the DecisionClient, whose generate_content answers
AsksClient == use_llm /\ decision_client = "gemini"

\* The weights sum to 1.0.  Each quotient of normalize is cut to a multiple
\* of 1/One, so the sum of n of them lies within n/One below 1.0.
SumsToOne(p) ==
    LET total == SumSeq(Weights(p))
    IN total <= One /\ total > One - Len(p)

\* C1: every decide_and_act call returns its description string and none
\* raises, on the heuristic path, on the path with a client and on the path
\* without one, whatever values the jitter takes.
C1_AlwaysReturns == Called => last.outcome = "returned"

\* C2: in an engine built with use_llm and a client whose decide_action
\* raises on every call, every decide_and_act call returns and no exception
\* reaches the caller.
C2_RaisingClientStillReturns ==
    (use_llm /\ decision_client = "raising" /\ Called) => last.outcome = "returned"

\* the calls that returned, in call order
ReturnedCalls ==
    LET Returned(call) == call.outcome = "returned"
    IN SelectSeq(calls, Returned)

\* the history holds one (stimulus, name) record per call that returned, in
\* call order
HistoryMatchesCalls ==
    /\ Len(decision_history) = Len(ReturnedCalls)
    /\ \A i \in 1..Len(decision_history) :
          decision_history[i] = <<ReturnedCalls[i].stimulus, ReturnedCalls[i].name>>

\* C3: a decide_and_act call that returns appends exactly one record, the
\* pair of its stimulus and the name of the tool it chose, at the end of
\* decision_history; no call changes or removes an earlier entry; after n
\* calls that returned the history has n entries, their stimuli in call order.
C3_HistoryGrowsInCallOrder ==
    [][calls' # calls =>
          /\ Len(decision_history') >= Len(decision_history)
          /\ SubSeq(decision_history', 1, Len(decision_history)) = decision_history
          /\ last'.outcome = "returned" =>
                decision_history' =
                   Append(decision_history, <<last'.stimulus, last'.name>>)
          /\ HistoryMatchesCalls']_vars

\* two calls returned, for different stimuli, and the history holds the two
\* in the order of the calls
C3_TwoCallsRecorded ==
    /\ Len(calls) = 2
    /\ Len(decision_history) = 2
    /\ calls[1].stimulus # calls[2].stimulus
    /\ decision_history[1][1] = calls[1].stimulus
    /\ decision_history[2][1] = calls[2].stimulus

\* C4: the distribution _calculate_tool_probabilities returns sums to 1.0
\* and every entry of it is above the pruning threshold 0.01 (so none is
\* negative or zero).
C4_DistributionNormalised ==
    Ran("calculate_tool_probabilities") =>
       /\ SumsToOne(last.dist)
       /\ \A i \in 1..Len(last.dist) : last.dist[i].weight > PruneThreshold

\* C5: when pruning leaves no tool in the pool, the call chooses
\* DialogueResponseTool and returns; the caller sees no error.
C5_EmptyPoolFailsOpen ==
    (Ran("calculate_tool_probabilities") /\ last.dist = <<>>) =>
       (last.outcome = "returned" /\ last.tool = "DialogueResponseTool")

\* C6: on the path with a client, once the attempt to use the client has
\* failed, the tool chosen is the one of the highest weight in the heuristic
\* distribution; if the distribution is empty it is DialogueResponseTool,
\* executed with no parameters.
C6_FallbackTakesTopSuggestion ==
    (last.path = "llm" /\ Ran("except")) =>
       /\ last.outcome = "returned"
       /\ IF last.dist # <<>>
          THEN last.tool = highest_prob_tool(last.dist)
          ELSE last.tool = "DialogueResponseTool" /\ last.kwargs = EmptyDict

\* The failures of the adapter: no response text (a transport error ends as
\* None in generate_content), a text with no parsable object, an object
\* whose action cannot be mapped.
AdapterFailures == {NoResponse, NoPayload, BrokenPayload, UnknownAction}

IsSayPattern(action) ==
    \/ StartsWith(action, "say_") \/ StartsWith(action, "speak_")
    \/ action = <<"speak">> \/ action = <<"say">>
IsAskPattern(action) == StartsWith(action, "ask_")
IsMonologuePattern(action) ==
    StartsWith(action, "monologue_") \/ action = <<"monologue">>

\* C8: every target of the lookup table is a registered tool; for an action
\* identifier that is a string, _decision_to_tool raises nothing and returns
\* a registered tool: the table's target for an identifier of the table,
\* the tool of its pattern for a say_/speak_, ask_ or monologue_ identifier,
\* DialogueResponseTool for any other.
C8_IdentifierMapsToRegisteredTool ==
    /\ \A a \in DOMAIN action_to_tool : HasTool(registry, action_to_tool[a])
    /\ (Called /\ IsStr(decision_action(last.decision))) =>
          LET action == decision_action(last.decision).str
          IN /\ last.outcome = "returned"
             /\ ~Ran("except")
             /\ HasTool(registry, last.tool)
             /\ action \in DOMAIN action_to_tool =>
                   last.tool = action_to_tool[action]
             /\ IsSayPattern(action) => last.tool = "DialogueResponseTool"
             /\ IsAskPattern(action) => last.tool = "AskQuestionTool"
             /\ IsMonologuePattern(action) => last.tool = "MonologueTool"
             /\ (/\ action \notin DOMAIN action_to_tool
                 /\ ~IsSayPattern(action)
                 /\ ~IsAskPattern(action)
                 /\ ~IsMonologuePattern(action)) =>
                   last.tool = "DialogueResponseTool"

\* the identifiers of each kind are mapped: here one of the table, of two
\* words
C8_TableIdentifierMapped ==
    /\ Called
    /\ decision_action(last.decision) = Str(<<"take_", "cover">>)
    /\ last.tool = "TakeCoverTool"

\* C9: when the client's decision was mapped and carries parameters besides
\* the action, the tool is executed with exactly those parameters.
C9_ParametersCarriedForward ==
    (/\ AsksClient /\ Called /\ ~Ran("except")
     /\ last.response \notin AdapterFailures
     /\ DOMAIN decision_parameters(last.decision) # {}) =>
       /\ last.outcome = "returned"
       /\ last.kwargs = decision_parameters(last.decision)

\* C10: the flag given at construction fixes the one selection path of every
\* call.  Flag off: the heuristic draw, the client is never asked.  Flag on
\* with a client: the client is asked, and the heuristic draw happens only
\* after that attempt has raised.  Flag on without a client: the highest
\* weight is taken, with no client call and no draw.
C10_OnePathFixedByFlag ==
    Called =>
       /\ ~use_llm =>
             /\ last.path = "heuristic"
             /\ ~Ran("decide_action") /\ ~Ran("max")
       /\ (use_llm /\ decision_client # "none") =>
             /\ last.path = "llm"
             /\ Ran("decide_action") /\ ~Ran("max")
             /\ Ran("calculate_tool_probabilities") =>
                   /\ RanBefore("decide_action", "except")
                   /\ RanBefore("except", "calculate_tool_probabilities")
             /\ Ran("random.choices") =>
                   RanBefore("calculate_tool_probabilities", "random.choices")
       /\ (use_llm /\ decision_client = "none") =>
             /\ last.path = "mock"
             /\ ~Ran("decide_action") /\ ~Ran("random.choices")

\* an engine with the flag on drew by weights after its client had raised
C10_DrawAfterClientFailed ==
    /\ use_llm /\ decision_client = "raising"
    /\ last.outcome = "returned"
    /\ RanBefore("except", "random.choices")

\* C11: for every dimension get_trait returns a value of [0, 1], and 0.5
\* when the dimension was never set; the same for get_modifier and every
\* modifier; whatever the personality was constructed with and whatever
\* update_modifier calls and decide_and_act calls followed.
C11_GettersInUnitInterval ==
    /\ \A d \in PersonalityDimension :
          /\ get_trait(traits, d) \in 0..One
          /\ d \notin DOMAIN traits => get_trait(traits, d) = Half
    /\ \A m \in PersonalityModifier :
          /\ get_modifier(modifiers, m) \in 0..One
          /\ m \notin DOMAIN modifiers => get_modifier(modifiers, m) = Half

\* the operation made last
LastOp == ops[Len(ops)]

\* C12: update_modifier(m, v) stores min(1, max(0, v)) under m, whatever v
\* is, and changes nothing else: every other modifier keeps its value, no
\* modifier is added or removed besides m, the traits and the quirks are
\* the same.
C12_UpdateModifierClampsAndFrames ==
    [][(ops' # ops /\ ops'[Len(ops')].op = "update_modifier") =>
          LET m == ops'[Len(ops')].modifier
              v == ops'[Len(ops')].value
          IN /\ DOMAIN modifiers' = (DOMAIN modifiers) \cup {m}
             /\ modifiers'[m] = (IF v < 0 THEN 0 ELSE IF v > One THEN One ELSE v)
             /\ \A k \in (DOMAIN modifiers) \ {m} : modifiers'[k] = modifiers[k]
             /\ traits' = traits
             /\ quirks' = quirks]_vars

\* update_modifier(MOOD, 10) was the last operation: MOOD is 1.0 and the TRUST
\* the personality was constructed with is untouched
C12_TenStoredAsOne ==
    /\ ops # <<>>
    /\ LastOp.op = "update_modifier"
    /\ LastOp.modifier = "MOOD"
    /\ LastOp.value = 10 * One
    /\ modifiers["MOOD"] = One
    /\ "TRUST" \in DOMAIN modifiers
    /\ modifiers["TRUST"] = 5 * One

\* min(1, max(0, x / One)) of a number x that carries One times the scale of
\* the floats: exact at the two ends, within one step of the grid between
ClampOf(x, result) ==
    IF x <= 0 THEN result = 0
    ELSE IF x >= One * One THEN result = One
    ELSE result * One - x < One /\ x - result * One < One

\* C13: influence_value(base, dim, strength) is base + (trait(dim) - 0.5) *
\* strength clamped to [0, 1]; with base 0.5 and a trait of 0.5, set or
\* defaulted, it is exactly 0.5 whatever the strength and its sign.
C13_InfluenceValue ==
    \A i \in 1..Len(ops) :
       ops[i].op = "influence_value" =>
          LET trait_value == IF ops[i].trait \in DOMAIN traits
                             THEN traits[ops[i].trait] ELSE Half
          IN /\ ClampOf(ops[i].base_value * One
                          + (trait_value - Half) * ops[i].influence_strength,
                        ops[i].result)
             /\ (ops[i].base_value = Half /\ trait_value = Half) =>
                   ops[i].result = Half

\* a base of 0.5 under a trait that was never set and a strength of -3 came
\* back as 0.5
C13_NeutralTraitNoInfluence ==
    /\ ops # <<>>
    /\ LastOp.op = "influence_value"
    /\ LastOp.base_value = Half
    /\ LastOp.trait \notin DOMAIN traits
    /\ LastOp.influence_strength = -3 * One
    /\ LastOp.result = Half

\* x brought into [0, 1]
Clip(x) == IF x < 0 THEN 0 ELSE IF x > One THEN One ELSE x

\* C14: whatever the value and the spread (a half-width, so not negative),
\* add_randomness returns a number of [0, 1], and it is the clamp of a
\* number that differs from the value by at most the spread: it lies
\* between the clamps of value - spread and value + spread.
C14_AddRandomnessBounded ==
    \A i \in 1..Len(ops) :
       ops[i].op = "add_randomness" =>
          /\ ops[i].result \in 0..One
          /\ ops[i].result >= Clip(ops[i].value - ops[i].randomness)
          /\ ops[i].result <= Clip(ops[i].value + ops[i].randomness)

\* 0.05 randomised with a spread of 0.15 came back as 0.0, the clamp of -0.1
C14_LoweredToZero ==
    /\ ops # <<>>
    /\ LastOp.op = "add_randomness"
    /\ LastOp.value = Pct(5)
    /\ LastOp.randomness = Pct(15)
    /\ LastOp.result = 0

\* the positions before i of the register_tool calls for the name
RegistrationsBefore(i, tool_name) ==
    {j \in 1..(i - 1) : ops[j].op = "register_tool" /\ ops[j].class.cls = tool_name}

\* every get_tool call made so far returned the class registered last under
\* its name, and raised KeyError exactly when there was none
LookupsAnswered ==
    \A i \in 1..Len(ops) :
       ops[i].op = "get_tool" =>
          LET earlier == RegistrationsBefore(i, ops[i].tool_name)
          IN IF earlier = {}
             THEN ops[i].outcome = "KeyError"
             ELSE /\ ops[i].outcome = "returned"
                  /\ ops[i].result =
                        ops[CHOOSE j \in earlier : \A k \in earlier : k <= j].class

\* C15: after any register_tool calls, get_tool(N) returns the class
\* registered last under the name N, a later registration replacing an
\* earlier one with no error; it raises KeyError exactly when no class was
\* ever registered under N; and a get_tool call, failing or not, leaves the
\* registry as it was.
C15_LastRegistrationWins ==
    [][ops' # ops =>
          /\ LookupsAnswered'
          /\ ops'[Len(ops')].op = "get_tool" => registry' = registry
          /\ ops'[Len(ops')].op = "register_tool" =>
                HasTool(registry', ops'[Len(ops')].class.cls)]_vars

\* DeceiveTool of dialogue_tools was registered, then DeceiveTool of
\* communication_tools, and get_tool("DeceiveTool") returned the second
C15_SecondDeceiveToolReturned ==
    /\ Len(ops) = 3
    /\ ops[1].op = "register_tool"
    /\ ops[1].class.cls = "DeceiveTool" /\ ops[1].class.module = "dialogue_tools"
    /\ ops[2].op = "register_tool"
    /\ ops[2].class.cls = "DeceiveTool" /\ ops[2].class.module = "communication_tools"
    /\ ops[3].op = "get_tool"
    /\ ops[3].tool_name = "DeceiveTool"
    /\ ops[3].outcome = "returned"
    /\ ops[3].result.module = "communication_tools"

\* every field of the stimulus that has a closed set holds values of it
KnownValues(stimulus) ==
    /\ stimulus.stimulus_type \in StimulusType
    /\ \A i \in 1..Len(stimulus.schema) : stimulus.schema[i] \in StimulusSchema
    /\ stimulus.intent \in StimulusIntent

\* C16: the construction of a stimulus fails whenever its schema holds a
\* value outside StimulusSchema, or its intent or its stimulus type is
\* outside its enumeration; so every stimulus decide_and_act is called on
\* holds known values only.
C16_UnknownValuesRejected ==
    /\ \A i \in 1..Len(ops) :
          (ops[i].op = "InterpretedStimulus" /\ ~KnownValues(ops[i].stimulus)) =>
             ops[i].outcome = "raised"
    /\ Called => KnownValues(last.stimulus)

\* C17: the modifier update of a decide_and_act call on the dialogue
\* stimulus of schema [insult], intent humiliate and emotional salience 0.9
\* leaves STRESS strictly higher and MOOD strictly lower than they were, when
\* stress was below 1 and mood above 0.
C17_InsultRaisesStressLowersMood ==
    [][(/\ calls' # calls
        /\ last'.stimulus = Insulting
        /\ get_modifier(modifiers, "STRESS") < One
        /\ get_modifier(modifiers, "MOOD") > 0) =>
          /\ get_modifier(modifiers', "STRESS") > get_modifier(modifiers, "STRESS")
          /\ get_modifier(modifiers', "MOOD") < get_modifier(modifiers, "MOOD")]_vars

C19_OnlyModifierUpdateStepWrites ==
    [][/\ traits' = traits
       /\ quirks' = quirks
       /\ modifiers' # modifiers =>
             \/ calls' # calls
             \/ ops' # ops /\ ops'[Len(ops')].op = "update_modifier"]_vars

\* C20: in every decide_and_act call the modifier update for the stimulus
\* of the call is the first step, made before the selection; the
\* distribution of the call is computed, and its kwargs are built, on the
\* stress and mood that this update left.
C20_UpdateBeforeSelection ==
    [][calls' # calls =>
          LET stimulus == last'.stimulus
              updated == update_modifiers(modifiers, stimulus)
          IN /\ modifiers' = updated
             /\ last'.steps[1] = "update_modifiers"
             /\ \A i \in 2..Len(last'.steps) : last'.steps[i] # "update_modifiers"
             /\ (\E i \in 1..Len(last'.steps) :
                    last'.steps[i] = "calculate_tool_probabilities")
                => (\E before \in {weights_before_jitter(tools_by_category, traits,
                                                         updated, stimulus)} :
                    \E jitter \in Jitters :
                       last'.dist = calculate_tool_probabilities(before, jitter))
             /\ last'.outcome = "returned" =>
                   last'.kwargs = build_tool_kwargs(last'.name, stimulus, traits,
                                                    updated, quirks)]_vars

\* The second insult in a row took the mood from 0.3 to 0.1, under the
\* bad-mood threshold, and the distribution of that call is none that the
\* mood of 0.3 gives.
C20_BadMoodWeightsSameCall ==
    /\ Len(calls) = 2
    /\ calls[1].stimulus = Insulting
    /\ last.stimulus = Insulting
    /\ Ran("calculate_tool_probabilities")
    /\ last.dist # <<>>
    /\ modifiers["MOOD"] = Pct(10)
    /\ \A jitter \in Jitters :
          last.dist # calculate_tool_probabilities(
                         weights_before_jitter(tools_by_category, traits,
                                               ("STRESS" :> Pct(20)) @@ ("MOOD" :> Pct(30)),
                                               Insulting),
                         jitter)

\* C21: the modifier update of a decide_and_act call on a stimulus with the
\* praise or the reassurance schema, or the build-rapport intent, leaves
\* STRESS strictly lower and MOOD strictly higher than they were, when stress
\* was above 0 and mood below 1.
C21_PraiseLowersStressRaisesMood ==
    [][(/\ calls' # calls
        /\ \/ InSchema(last'.stimulus, "PRAISE")
           \/ InSchema(last'.stimulus, "REASSURANCE")
           \/ last'.stimulus.intent = "BUILD_RAPPORT"
        /\ get_modifier(modifiers, "STRESS") > 0
        /\ get_modifier(modifiers, "MOOD") < One) =>
          /\ get_modifier(modifiers', "STRESS") < get_modifier(modifiers, "STRESS")
          /\ get_modifier(modifiers', "MOOD") > get_modifier(modifiers, "MOOD")]_vars

\* the weights the most recent call held when it applied the jitter: the
\* modifiers are those its modifier update left
WeightsAtJitter ==
    weights_before_jitter(tools_by_category, traits, modifiers, last.stimulus)

\* C22: in every call that computes the distribution, every weight is
\* strictly positive when the jitter is applied: the clamp that follows the
\* stimulus and personality adjustments leaves no weight at zero or below.
C22_WeightsPositiveAtJitter ==
    (Called /\ Ran("calculate_tool_probabilities")) =>
       \A w \in {WeightsAtJitter} : \A i \in 1..Len(w) : w[i].weight > 0

\* C23: in every call the seeding gives a strictly positive base weight to
\* every class that is in the registry when the call is made, the classes
\* registered after the engine was constructed and those of a module that
\* is no category of the relevance table included.
C23_EveryRegisteredToolSeeded ==
    [][calls' # calls =>
          \A seed \in {seed_probabilities(tools_by_category, last'.stimulus)} :
             \A k \in RegistryKeys(registry) :
                \E i \in 1..Len(seed) : seed[i].tool = k /\ seed[i].weight > 0]_vars

\* the traits with the value v for the trait t
WithTrait(given, t, v) ==
    [d \in (DOMAIN given) \cup {t} |-> IF d = t THEN v ELSE given[d]]

\* What the trait t at the value v adds to each weight of the most recent
\* call in the personality adjustments, by position in the dict: the
\* weights adjusted with the value less those adjusted with 0.5 in its place.
TraitDelta(t, v) ==
    LET p == adjust_probabilities_for_stimulus(
                 seed_probabilities(tools_by_category, last.stimulus), last.stimulus)
        with == ApplyAdjustments(p, PersonalityAdjustments(WithTrait(traits, t, v),
                                                           modifiers))
        neutral == ApplyAdjustments(p, PersonalityAdjustments(WithTrait(traits, t, Half),
                                                              modifiers))
    IN [i \in 1..Len(p) |-> with[i].weight - neutral[i].weight] \o <<>>

Abs(x) == IF x < 0 THEN -x ELSE x

\* C24: in every call that computes the distribution, a trait whose value
\* is not 0.5 shifts the weights of a favored group one way and those of a
\* disfavored group the other way, and the shift of each tool is larger than
\* the one the value halfway to 0.5 gives.
C24_TraitDeltaProportional ==
    (Called /\ Ran("calculate_tool_probabilities")) =>
       \A t \in DOMAIN traits :
          traits[t] # Half =>
             \A delta \in {TraitDelta(t, traits[t])} :
             \A nearer \in {TraitDelta(t, (traits[t] + Half) \div 2)} :
                /\ \E i \in 1..Len(delta) : delta[i] > 0
                /\ \E i \in 1..Len(delta) : delta[i] < 0
                /\ \A i \in 1..Len(delta) :
                      delta[i] # 0 =>
                         /\ nearer[i] # 0
                         /\ Abs(nearer[i]) < Abs(delta[i])

\* C25: the kwargs of every call that returned hold the common context: the
\* personality snapshot (the seven traits, stress, mood and the quirks) and
\* the content of the stimulus, whichever tool was chosen.
C25_KwargsCarryCommonContext ==
    (Called /\ last.outcome = "returned") =>
       /\ "personality_context" \in DOMAIN last.kwargs
       /\ last.kwargs["personality_context"] =
             personality_context(traits, modifiers, quirks)
       /\ \E k \in DOMAIN last.kwargs :
             last.kwargs[k] = Str(<<last.stimulus.raw_content>>)

\* C26: an engine with use_llm set and no client takes the path of
\* _mock_llm_select in every call, and the call returns: the tool executed
\* is one of the highest weight in the distribution of the call, and
\* DialogueResponseTool when that distribution is empty.
C26_MockPathTakesTopTool ==
    /\ (Called /\ use_llm /\ decision_client = "none") => last.path = "mock"
    /\ (Called /\ last.path = "mock") =>
          /\ last.outcome = "returned"
          /\ Ran("calculate_tool_probabilities")
          /\ last.dist = <<>> => last.tool = "DialogueResponseTool"
          /\ last.dist # <<>> =>
                \E i \in 1..Len(last.dist) :
                   /\ last.dist[i].tool = last.tool
                   /\ \A j \in 1..Len(last.dist) :
                         last.dist[j].weight <= last.dist[i].weight

\* a call on the path without a client found every tool pruned and
\* returned with the dialogue response
C26_EmptyPoolAnswered ==
    /\ last.path = "mock"
    /\ last.dist = <<>>
    /\ last.outcome = "returned"
    /\ last.name = "dialogue_response"
    /\ Len(decision_history) = Len(calls)

\* the stimuli added to the queue so far, and those the gets returned so
\* far, in the order of the calls
AddedSoFar ==
    LET IsAdd(o) == o.op = "add_raw_stimulus"
        adds == SelectSeq(ops, IsAdd)
    IN [i \in 1..Len(adds) |-> adds[i].stimulus] \o <<>>
ReturnedSoFar ==
    LET IsGot(o) == o.op = "get_next_raw_stimulus" /\ o.result # None
        gets == SelectSeq(ops, IsGot)
    IN [i \in 1..Len(gets) |-> gets[i].result] \o <<>>

\* C27: the queue of an Actor is first in, first out.  At every moment the
\* stimuli added so far are, in order, those the gets have returned followed
\* by those still queued, so each is returned once and in the order of the
\* adds; a get takes the oldest queued stimulus, and on an empty queue
\* returns None and changes nothing; an add and a get leave the interpreted
\* history and the memorized items as they were.
C27_QueueIsFifo ==
    /\ [](AddedSoFar = ReturnedSoFar \o actor.unprocessed_stimuli_queue)
    /\ [][(ops' # ops /\ ops'[Len(ops')].op = "get_next_raw_stimulus") =>
             IF actor.unprocessed_stimuli_queue = <<>>
             THEN ops'[Len(ops')].result = None /\ actor' = actor
             ELSE /\ ops'[Len(ops')].result = Head(actor.unprocessed_stimuli_queue)
                  /\ actor'.unprocessed_stimuli_queue =
                        Tail(actor.unprocessed_stimuli_queue)]_vars
    /\ [][(ops' # ops /\ ops'[Len(ops')].op \in {"add_raw_stimulus",
                                                 "get_next_raw_stimulus"}) =>
             /\ actor'.interpreted_stimuli_history = actor.interpreted_stimuli_history
             /\ actor'.memorized_items = actor.memorized_items]_vars

\* two different stimuli were added, an interpreted one recorded, and the
\* get that followed returned the first of the two and left the second
C27_OldestReturnedFirst ==
    /\ Len(ops) = 4
    /\ ops[1].op = "add_raw_stimulus"
    /\ ops[2].op = "add_raw_stimulus"
    /\ ops[1].stimulus # ops[2].stimulus
    /\ ops[3].op = "add_interpreted_stimulus"
    /\ ops[4].op = "get_next_raw_stimulus"
    /\ ops[4].result = ops[1].stimulus
    /\ actor.unprocessed_stimuli_queue = <<ops[2].stimulus>>
    /\ actor.interpreted_stimuli_history # <<>>

\* C28: over the decide_and_act calls of one engine the stress never goes
\* down.  A call on a stimulus of the threat schema raises it by 0.2 times
\* the emotional salience of the stimulus (0.5 when it has none), up to 1.0
\* at most; a call on any other stimulus leaves it as it is; once above
\* 0.7 it is above 0.7 after every later call.
C28_StressNeverDecreases ==
    [][calls' # calls =>
          LET stimulus == last'.stimulus
              stress == get_modifier(modifiers, "STRESS")
              after == get_modifier(modifiers', "STRESS")
              emotional == IF "EMOTIONAL" \in DOMAIN stimulus.salience
                           THEN stimulus.salience["EMOTIONAL"] ELSE Half
              raised == stress + (2 * emotional) \div 10
          IN /\ after >= stress
             /\ InSchema(stimulus, "THREAT") =>
                   after = (IF raised > One THEN One ELSE raised)
             /\ ~InSchema(stimulus, "THREAT") => after = stress
             /\ stress > Pct(70) => after > Pct(70)]_vars

\* five threats of full emotional salience took the stress from 0.2 to the
\* cap, a threat with no salience entry was among the calls before them or
\* not, and the praise that followed left the stress at 1.0
C28_PraiseLeavesStressAtCap ==
    /\ Len(calls) = 6
    /\ \A i \in 1..5 : calls[i].stimulus = Threatening
    /\ last.stimulus = Praising
    /\ modifiers["STRESS"] = One

\* C29: a decide_and_act call that raises appends nothing to the history
\* and leaves the stress and the mood that its modifier update wrote for its
\* stimulus; a call that returns appends one record; so the history grows by
\* one with each call that returned and with no other.
C29_RaisedCallKeepsUpdate ==
    [][calls' # calls =>
          /\ modifiers' = update_modifiers(modifiers, last'.stimulus)
          /\ last'.outcome = "raised" => decision_history' = decision_history
          /\ last'.outcome = "returned" =>
                Len(decision_history') = Len(decision_history) + 1
          /\ last'.outcome \in {"raised", "returned"}]_vars

\* the only call made was on the threat with no salience entry and raised:
\* the history is empty, the stress is 0.3 and the mood 0.4
C29_ThreatRaisedStressKept ==
    /\ Len(calls) = 1
    /\ last.stimulus = BareThreat
    /\ last.outcome = "raised"
    /\ decision_history = <<>>
    /\ modifiers = ("STRESS" :> Pct(30)) @@ ("MOOD" :> Pct(40))

\* C30: on the heuristic path the tool that a returning call executes and
\* records is a key of the final distribution of the call, one whose weight
\* after the jitter was above 0.01; a tool that the call pruned is never the
\* one selected.
C30_SelectedToolSurvivedPruning ==
    [][(calls' # calls /\ last'.path = "heuristic" /\ last'.outcome = "returned") =>
          /\ last'.tool \in Keys(last'.dist)
          /\ last'.name = get_tool(registry, last'.tool).name
          /\ decision_history'[Len(decision_history')][2] = last'.name
          /\ \E before \in {weights_before_jitter(tools_by_category, traits,
                                                  modifiers', last'.stimulus)} :
             \E jitter \in Jitters :
             \E jittered \in {jitter_probabilities(before, jitter)} :
                /\ last'.dist = normalize(prune(jittered))
                /\ \E i \in 1..Len(jittered) :
                      /\ jittered[i].tool = last'.tool
                      /\ jittered[i].weight > PruneThreshold]_vars

\* a call on the heuristic path returned with a tool drawn from a pool
\* that the pruning had cut down to fewer keys than were seeded
C30_DrawnFromPrunedPool ==
    /\ last.path = "heuristic"
    /\ last.outcome = "returned"
    /\ last.dist # <<>>
    /\ Len(last.dist) < Len(seed_probabilities(tools_by_category, last.stimulus))
    /\ last.tool \in Keys(last.dist)
====
